---------------------------- MODULE Spec2Model ----------------------------
(***************************************************************************)
(* Model of the interrupt-driven AVR drivers of avr-demos:                 *)
(*   - src/library/uart.c         queued UART transmit / receive driver    *)
(*   - src/i2c-digital-read/i2c.c queued TWI (I2C) master driver           *)
(*   - src/library/graphics.c     Bresenham line rasteriser                *)
(* Driver functions are operators from a driver state record to a driver   *)
(* state record; an action applies one complete call or one complete       *)
(* interrupt handler invocation to the variables.                          *)
(***************************************************************************)
EXTENDS Integers, Sequences, FiniteSets, TLC

VARIABLES
    \* ---- src/library/uart.c
    transmit_queue,   \* struct queue_item transmit_queue [BUFFER_LENGTH]
    head,             \* head of the transmit queue (slot index or NULL)
    tail,             \* tail of the transmit queue
    free_list,        \* head of the free list
    digit_mask,       \* shared digit selector of the integer handlers
    shift_bits,       \* shared shift count of the hexadecimal handler
    UCSR0B,           \* USART control register B (bit 5 = UDRIE0)
    UDR0,             \* the bytes written to the data register, in order
    halted,           \* TRUE once a handler has failed to return
    tx_log,           \* the transmit calls made so far, with their results
    \* ---- src/i2c-digital-read/i2c.c
    i2c_buffer,       \* struct i2c_queue_item i2c_buffer [BUFFER_LENGTH]
    queue_head,       \* head of the transaction queue (slot index or NULL)
    queue_tail,       \* tail of the transaction queue
    TWCR,             \* TWI control register, as last written
    TWDR,             \* TWI data register
    TWSR,             \* TWI status register (status of the last event)
    twi_hw,           \* what the TWI hardware is doing on the bus
    twi_bus,          \* the writes made to TWCR and TWDR, in order
    rx_writes,        \* the stores made into the receive caller's buffer
    i2c_done,         \* the transactions dequeued so far, in order
    i2c_pc,           \* where the normal context is: "main", "receive_wait",
                      \* or inside i2c_read_register
    wait_slot,        \* the slot a blocked i2c_receive_from polls
    i2c_log,          \* the i2c calls made so far
    i2c_returns,      \* the returns of i2c_receive_from so far
    twi_irqs,         \* number of TWI handler invocations so far
    twsr_log,         \* the statuses the bus hardware has reported
    driver,           \* the driver built in: "i2c-digital-read" or "i2c-blink"
    register_reads,   \* the calls of i2c_read_register, with what they returned
    \* ---- src/library/uart.c, receiving
    received_data,    \* the byte last taken from the USART data register
    got_char,         \* flag set by the receive interrupt
    getline_pc,       \* where uart_getline is: "idle", "getchar" or "done"
    max_length,       \* uart_getline's parameter, as counted down
    buffer,           \* uart_getline's cursor, as an index of the caller's buffer
    bytes_read,       \* uart_getline's local
    buffer_size,      \* the max_length the caller passed: the buffer's size
    buffer_writes,    \* the stores made into the caller's buffer, in order
    \* ---- src/library/graphics.c
    line_pc,          \* where write_line is: "idle", "loop" or "done"
    start,            \* write_line's parameter
    end,              \* write_line's parameter
    cursor,           \* write_line's local
    error,            \* write_line's local
    pixels,           \* the pixels written to the panel, in order
    pixel_calls,      \* the positions callers passed to write_pixel
    \* ---- a call in the normal context, statement by statement
    call_pc,          \* the statement of transmit_string to execute next
    call_message,     \* transmit_string's parameter
    call_item,        \* next_item of allocate_item and transmit_string
    slot_log,         \* slots handed out, enqueued and released, in order
    tail_fault,       \* TRUE once tail was dereferenced while NULL
    twi_call_pc,      \* the statement of i2c_send_to to execute next
    twi_call,         \* i2c_send_to's parameters
    twi_call_slot,    \* buffer_slot of i2c_send_to
    queue_tail_fault, \* TRUE once queue_tail was dereferenced while NULL
    \* ---- src/i2c-blink/blink.c
    led_state,        \* static volatile uint8_t led_state
    \* ---- uart_getline statement by statement
    rx_arrived,       \* the bytes USART_RX_vect deposited during the call
    \* ---- vertical_line and horizontal_line
    fast_line,        \* the function called and the pixels it coloured
    \* ---- draw_circle
    circle,           \* the locals of circle_helper and the pixels plotted
    \* ---- DigitalReadSerial/uart.c and AnalogReadSerial/uart.c
    ring              \* struct buffer transmit_queue, and UDRIE0

uart_vars == <<transmit_queue, head, tail, free_list, digit_mask, shift_bits,
               UCSR0B, UDR0, halted, tx_log>>

i2c_vars == <<i2c_buffer, queue_head, queue_tail, TWCR, TWDR, TWSR, twi_hw,
              twi_bus, rx_writes, i2c_done, i2c_pc, wait_slot, i2c_log,
              i2c_returns, twi_irqs, twsr_log, driver, register_reads>>

rx_vars == <<received_data, got_char, getline_pc, max_length, buffer,
             bytes_read, buffer_size, buffer_writes>>

gfx_vars == <<line_pc, start, end, cursor, error, pixels, pixel_calls>>

uart_race_vars == <<call_pc, call_message, call_item, slot_log, tail_fault>>

i2c_race_vars == <<twi_call_pc, twi_call, twi_call_slot, queue_tail_fault>>

blink_vars == <<led_state>>

rx_race_vars == <<rx_arrived>>

\* the panel functions and the ring buffer drivers
other_vars == <<fast_line, circle, ring>>

race_vars ==
    <<uart_race_vars, i2c_race_vars, blink_vars, rx_race_vars, other_vars>>

vars == <<uart_vars, i2c_vars, rx_vars, gfx_vars, race_vars>>

-----------------------------------------------------------------------------
(* Machine arithmetic                                                      *)

NULL == -1

RECURSIVE BitAnd(_, _)
BitAnd(a, b) ==
    IF a = 0 \/ b = 0 THEN 0
    ELSE ((a % 2) * (b % 2)) + 2 * BitAnd(a \div 2, b \div 2)

RECURSIVE BitOr(_, _)
BitOr(a, b) ==
    IF a = 0 THEN b
    ELSE IF b = 0 THEN a
    ELSE (IF (a % 2) + (b % 2) > 0 THEN 1 ELSE 0) + 2 * BitOr(a \div 2, b \div 2)

\* value of a 16 bit pattern read as int (two's complement)
ToInt16(n) == LET m == n % 65536 IN IF m >= 32768 THEN m - 65536 ELSE m

\* bit pattern of an int read as uint16_t
ToUint16(n) == n % 65536

ToUint8(n) == n % 256

Int16 == -32768 .. 32767

-----------------------------------------------------------------------------
(* src/library/uart.c : data                                               *)

BUFFER_LENGTH == 32

Slots == 0 .. BUFFER_LENGTH - 1

DECIMAL == 10

HEX == 16

UDRIE0 == 5

\* the terminating null byte of a C string
NUL == "NUL"

\* A C string is the tuple of its characters; a const char * into it is the
\* tuple of the characters from the pointer up to the terminator.
CharAt(text) == IF text = <<>> THEN NUL ELSE Head(text)

strlen(message) == Len(message)

digit_map ==
    <<"0", "1", "2", "3", "4", "5", "6", "7",
      "8", "9", "A", "B", "C", "D", "E", "F">>

hexadecimal_digits_map == digit_map

\* digit_map [next_digit]; index 16 is the string's terminator
MapDigit(map, next_digit) ==
    IF next_digit < 16 THEN map[next_digit + 1]
    ELSE IF next_digit = 16 THEN NUL ELSE "OUT_OF_BOUNDS"

\* union message_data: the member that was stored last is the one read
message_data(text, number) == [text |-> text, number |-> number]

\* The driver's state as one record, so that its functions compose.
U == [transmit_queue |-> transmit_queue, head |-> head, tail |-> tail,
      free_list |-> free_list, digit_mask |-> digit_mask,
      shift_bits |-> shift_bits, UCSR0B |-> UCSR0B, UDR0 |-> UDR0,
      halted |-> halted]

SetU(u) ==
    /\ transmit_queue' = u.transmit_queue
    /\ head' = u.head
    /\ tail' = u.tail
    /\ free_list' = u.free_list
    /\ digit_mask' = u.digit_mask
    /\ shift_bits' = u.shift_bits
    /\ UCSR0B' = u.UCSR0B
    /\ UDR0' = u.UDR0
    /\ halted' = u.halted

\* uart_init: UDRE interrupt disabled, every slot on the free list (slot i
\* linked to slot i - 1, the list starting at the last slot), mask cleared.
uart_init ==
    [transmit_queue |->
        [i \in Slots |->
            [data |-> message_data(<<>>, 0),
             transmit_function |-> "null",
             next |-> IF i = 0 THEN NULL ELSE i - 1]],
     head |-> NULL,
     tail |-> NULL,
     free_list |-> BUFFER_LENGTH - 1,
     digit_mask |-> 0,
     shift_bits |-> 0,
     UCSR0B |-> 152,
     UDR0 |-> <<>>,
     halted |-> FALSE]

-----------------------------------------------------------------------------
(* src/library/uart.c : pool and queue                                     *)

\* allocate_item returning the head of the free list without unlinking it
allocate_item_keeps_free_list(u) ==
    LET next_item == u.free_list IN
    IF next_item = NULL
    THEN [u |-> u, item |-> NULL]
    ELSE [u |-> u, item |-> next_item]

allocate_item(u) ==
    LET next_item == u.free_list IN
    IF next_item = NULL
    THEN [u |-> u, item |-> NULL]
    ELSE [u |-> [u EXCEPT !.free_list = u.transmit_queue[u.free_list].next],
          item |-> next_item]

\* enqueue with the new item linked in front of the queue
enqueue_at_head(u, item) ==
    IF u.head = NULL
    THEN [u EXCEPT !.transmit_queue[item].next = NULL,
                   !.head = item,
                   !.tail = item,
                   !.UCSR0B = BitOr(@, 2 ^ UDRIE0)]
    ELSE [u EXCEPT !.transmit_queue[item].next = u.head,
                   !.head = item]

\* enqueue leaving the interrupt enable to its caller
enqueue_without_enable(u, item) ==
    LET u1 == [u EXCEPT !.transmit_queue[item].next = NULL] IN
    IF u1.head = NULL
    THEN [u1 EXCEPT !.head = item,
                    !.tail = item]
    ELSE [u1 EXCEPT !.transmit_queue[u1.tail].next = item,
                    !.tail = item]

enqueue(u, item) ==
    LET u1 == [u EXCEPT !.transmit_queue[item].next = NULL] IN
    IF u1.head = NULL
    THEN [u1 EXCEPT !.head = item,
                    !.tail = item,
                    !.UCSR0B = BitOr(@, 2 ^ UDRIE0)]
    ELSE [u1 EXCEPT !.transmit_queue[u1.tail].next = item,
                    !.tail = item]

\* dequeue leaving tail alone when it removes the last item
dequeue_keeps_tail(u) ==
    LET oldhead == u.head IN
    IF u.head = NULL
    THEN [u |-> u, item |-> NULL]
    ELSE [u |-> [u EXCEPT !.head = u.transmit_queue[u.head].next],
          item |-> oldhead]

dequeue(u) ==
    LET oldhead == u.head IN
    IF u.head = NULL
    THEN [u |-> u, item |-> NULL]
    ELSE LET u1 == IF u.transmit_queue[oldhead].next = NULL
                   THEN [u EXCEPT !.tail = NULL]
                   ELSE u
         IN [u |-> [u1 EXCEPT !.head = u1.transmit_queue[u1.head].next],
             item |-> oldhead]

-----------------------------------------------------------------------------
(* src/library/uart.c : enqueue calls                                      *)

transmit_string(u, message) ==
    LET a == allocate_item(u) IN
    IF a.item = NULL
    THEN [u |-> u, ret |-> 0]
    ELSE LET u1 == [a.u EXCEPT
                      !.transmit_queue[a.item].data.text = message,
                      !.transmit_queue[a.item].transmit_function = "string"]
             u2 == enqueue(u1, a.item)
         IN [u |-> [u2 EXCEPT !.UCSR0B = BitOr(@, 32)],
             ret |-> strlen(message)]

transmit_int(u, value, base) ==
    LET u0 == IF base = HEX
              THEN transmit_string(u, <<"0", "x">>).u
              ELSE u
        a == allocate_item(u0)
    IN IF a.item = NULL
       THEN [u |-> u0, ret |-> 0]
       ELSE LET u1 == [a.u EXCEPT
                         !.transmit_queue[a.item].data.number = value,
                         !.transmit_queue[a.item].transmit_function =
                             IF base = HEX THEN "hexadecimal" ELSE "integer"]
            IN [u |-> enqueue(u1, a.item), ret |-> 2]

-----------------------------------------------------------------------------
(* src/library/uart.c : uart_printf                                        *)

\* The memory the format pointer walks: the characters of the format, its
\* terminator, and whatever the build placed behind it (`beyond`).
FormatMemory(format, beyond) == format \o <<NUL>> \o beyond

\* *current
MemAt(mem, current) == IF current > Len(mem) THEN NUL ELSE mem[current]

\* the C string that starts at current
RECURSIVE StringAt(_, _)
StringAt(mem, current) ==
    IF MemAt(mem, current) = NUL THEN <<>>
    ELSE <<mem[current]>> \o StringAt(mem, current + 1)

\* va_arg (args, int) and va_arg (args, const char *): a read past the last
\* argument, or of an argument of the other type, yields whatever is there
va_arg_int(args, garbage) ==
    IF args # <<>> /\ Head(args).kind = "int"
    THEN Head(args).number
    ELSE garbage.number

va_arg_string(args, garbage) ==
    IF args # <<>> /\ Head(args).kind = "string"
    THEN Head(args).text
    ELSE garbage.text

va_next(args) == IF args = <<>> THEN <<>> ELSE Tail(args)

\* the for loop of uart_printf, current an index into the memory
RECURSIVE uart_printf_scan(_, _, _, _, _)
uart_printf_scan(u, mem, current, args, garbage) ==
    IF MemAt(mem, current) = NUL
    THEN u
    ELSE IF MemAt(mem, current) # "%"
    THEN uart_printf_scan(u, mem, current + 1, args, garbage)
    ELSE LET current1 == current + 1
             code == MemAt(mem, current1)
         IN IF code = "%"
            THEN uart_printf_scan(u, mem, current1 + 1, args, garbage)
            ELSE LET u1 ==
                       CASE code = "d" ->
                              transmit_int(u, ToInt16(va_arg_int(args, garbage)),
                                           DECIMAL).u
                         [] code = "x" ->
                              transmit_int(u, ToInt16(va_arg_int(args, garbage)),
                                           HEX).u
                         [] code = "s" ->
                              transmit_string(u, va_arg_string(args, garbage)).u
                         [] OTHER -> u
                     args1 == IF code \in {"d", "x", "s"}
                              THEN va_next(args)
                              ELSE args
                     current2 == current1 + 1
                     u2 == transmit_string(u1, StringAt(mem, current2)).u
                 IN uart_printf_scan(u2, mem, current2 + 1, args1, garbage)

uart_printf(u, format, args, beyond, garbage) ==
    LET u0 == transmit_string(u, format).u IN
    uart_printf_scan(u0, FormatMemory(format, beyond), 1, args, garbage)

-----------------------------------------------------------------------------
(* src/library/uart.c : per-kind byte producers                            *)

\* Outcomes of the two operations of integer_transmit_handler that C leaves
\* undefined.  `data->number *= -1` overflows for -32768: the AVR neg
\* instruction leaves -32768, a saturating target gives 32767.
\* `data->number / digit_mask` divides by zero for the value 0 once the mask
\* has shrunk to 0: the AVR library division returns the quotient 0xFFFF, a
\* target that traps never returns from the handler (outcome TRAP).
NegOverflowOutcomes == {-32768, 32767}

TRAP == -1

DivZeroOutcomes == {65535, TRAP}

UBChoices == [neg : NegOverflowOutcomes, divz : DivZeroOutcomes]

\* UDR0 = c
WriteUDR0(u, c) == [u EXCEPT !.UDR0 = Append(@, c)]

string_transmit_handler(u, item) ==
    LET text == u.transmit_queue[item].data.text IN
    IF CharAt(text) = NUL
    THEN [u |-> u, ret |-> 1]
    ELSE IF CharAt(text) = "%"
    THEN LET text1 == Tail(text) IN
         IF CharAt(text1) # "%" \/ CharAt(text1) = NUL
         THEN [u |-> [u EXCEPT !.transmit_queue[item].data.text = text1],
               ret |-> 1]
         ELSE [u |-> [WriteUDR0(u, CharAt(text1)) EXCEPT
                        !.transmit_queue[item].data.text = Tail(text1)],
               ret |-> 0]
    ELSE [u |-> [WriteUDR0(u, CharAt(text)) EXCEPT
                   !.transmit_queue[item].data.text = Tail(text)],
          ret |-> 0]

\* while (data->number / digit_mask == 0) digit_mask /= 10;
\* the result is the mask the loop leaves, or TRAP when it never leaves
RECURSIVE MostSignificantDigitMask(_, _, _)
MostSignificantDigitMask(number, mask, ub) ==
    IF mask = 0
    THEN (IF ub.divz = TRAP THEN TRAP ELSE 0)
    ELSE IF number \div mask = 0
         THEN MostSignificantDigitMask(number, mask \div 10, ub)
         ELSE mask

\* integer_transmit_handler leaving the mask at 1 after the last digit
integer_transmit_handler_keeps_mask(u, item, ub) ==
    LET number == u.transmit_queue[item].data.number IN
    IF number < 0
    THEN [u |-> [WriteUDR0(u, "-") EXCEPT
                   !.transmit_queue[item].data.number =
                       IF number = -32768 THEN ub.neg ELSE -number],
          ret |-> 0]
    ELSE LET mask1 == IF u.digit_mask = 0
                      THEN MostSignificantDigitMask(number, 10000, ub)
                      ELSE u.digit_mask
         IN IF mask1 = TRAP
            THEN [u |-> [u EXCEPT !.halted = TRUE, !.digit_mask = 0],
                  ret |-> 0]
            ELSE LET next_digit == IF mask1 # 0
                                   THEN ToUint8(number \div mask1)
                                   ELSE ToUint8(number)
                     number2 == IF mask1 # 0 THEN number % mask1 ELSE number
                     mask2 == IF mask1 # 0 THEN mask1 \div 10 ELSE mask1
                     u1 == WriteUDR0(u, MapDigit(digit_map, next_digit))
                 IN [u |-> [u1 EXCEPT
                              !.transmit_queue[item].data.number = number2,
                              !.digit_mask = IF mask2 = 0 THEN 1 ELSE mask2],
                     ret |-> IF mask2 = 0 THEN 1 ELSE 0]

integer_transmit_handler(u, item, ub) ==
    LET number == u.transmit_queue[item].data.number IN
    IF number < 0
    THEN [u |-> [WriteUDR0(u, "-") EXCEPT
                   !.transmit_queue[item].data.number =
                       IF number = -32768 THEN ub.neg ELSE -number],
          ret |-> 0]
    ELSE LET mask1 == IF u.digit_mask = 0
                      THEN MostSignificantDigitMask(number, 10000, ub)
                      ELSE u.digit_mask
         IN IF mask1 = TRAP
            THEN [u |-> [u EXCEPT !.halted = TRUE, !.digit_mask = 0],
                  ret |-> 0]
            ELSE LET next_digit == IF mask1 # 0
                                   THEN ToUint8(number \div mask1)
                                   ELSE ToUint8(number)
                     number2 == IF mask1 # 0 THEN number % mask1 ELSE number
                     mask2 == IF mask1 # 0 THEN mask1 \div 10 ELSE mask1
                     u1 == WriteUDR0(u, MapDigit(digit_map, next_digit))
                 IN [u |-> [u1 EXCEPT
                              !.transmit_queue[item].data.number = number2,
                              !.digit_mask = mask2],
                     ret |-> IF mask2 = 0 THEN 1 ELSE 0]

\* hexadecimal_transmit_handler without the reset of shift_bits to 12
hexadecimal_transmit_handler_stale_shift(u, item) ==
    LET number == u.transmit_queue[item].data.number
        mask1 == IF u.digit_mask = 0 THEN 61440 ELSE u.digit_mask
        shift1 == u.shift_bits % 16
        next_digit == ToUint8(BitAnd(ToUint16(number), mask1) \div (2 ^ shift1))
        mask2 == mask1 \div 16
        shift2 == ToUint16(shift1 - 4)
        u1 == WriteUDR0(u, MapDigit(hexadecimal_digits_map, next_digit))
    IN [u |-> [u1 EXCEPT !.digit_mask = mask2, !.shift_bits = shift2],
        ret |-> IF mask2 = 0 THEN 1 ELSE 0]

hexadecimal_transmit_handler(u, item) ==
    LET number == u.transmit_queue[item].data.number
        mask1 == IF u.digit_mask = 0 THEN 61440 ELSE u.digit_mask
        shift1 == IF u.digit_mask = 0 THEN 12 ELSE u.shift_bits
        next_digit == ToUint8(BitAnd(ToUint16(number), mask1) \div (2 ^ shift1))
        mask2 == mask1 \div 16
        shift2 == ToUint16(shift1 - 4)
        u1 == WriteUDR0(u, MapDigit(hexadecimal_digits_map, next_digit))
    IN [u |-> [u1 EXCEPT !.digit_mask = mask2, !.shift_bits = shift2],
        ret |-> IF mask2 = 0 THEN 1 ELSE 0]

\* current_item->transmit_function (&(current_item->data))
CallTransmitFunction(u, item, ub) ==
    CASE u.transmit_queue[item].transmit_function = "string" ->
             string_transmit_handler(u, item)
      [] u.transmit_queue[item].transmit_function = "integer" ->
             integer_transmit_handler(u, item, ub)
      [] u.transmit_queue[item].transmit_function = "hexadecimal" ->
             hexadecimal_transmit_handler(u, item)

\* the handler disabling the interrupt in the invocation that empties the queue
USART_UDRE_vect_disables_on_last(u, ub) ==
    IF u.head # NULL
    THEN LET r == CallTransmitFunction(u, u.head, ub) IN
         IF r.ret = 1
         THEN LET d == dequeue(r.u)
                  f == [d.u EXCEPT !.transmit_queue[d.item].next = d.u.free_list,
                                   !.free_list = d.item]
              IN IF f.head = NULL
                 THEN [f EXCEPT !.UCSR0B = BitAnd(@, 255 - 2 ^ UDRIE0)]
                 ELSE f
         ELSE r.u
    ELSE [u EXCEPT !.UCSR0B = BitAnd(@, 255 - 2 ^ UDRIE0)]

\* ISR (USART_UDRE_vect)
USART_UDRE_vect(u, ub) ==
    IF u.head # NULL
    THEN LET r == CallTransmitFunction(u, u.head, ub) IN
         IF r.ret = 1
         THEN LET d == dequeue(r.u) IN
              [d.u EXCEPT !.transmit_queue[d.item].next = d.u.free_list,
                          !.free_list = d.item]
         ELSE r.u
    ELSE [u EXCEPT !.UCSR0B = BitAnd(@, 255 - 2 ^ UDRIE0)]

-----------------------------------------------------------------------------
(* src/i2c-digital-read/i2c.c : data                                       *)

MASTER_TRANSMITTER_MODE == 2

MASTER_RECEIVER_MODE == 4

\* bits of TWCR
TWINT == 128

TWEA == 64

TWSTA == 32

TWSTO == 16

TWEN == 4

TWIE == 1

HasBit(value, bit) == BitAnd(value, bit) # 0

\* A uint8_t * is the memory it points into ("tx": the array `base` handed
\* to i2c_send_to, "rx": the buffer handed to i2c_receive_from) and an offset.
Pointer(mem, base, off) == [mem |-> mem, base |-> base, off |-> off]

NullPointer == Pointer("null", <<>>, 0)

\* The driver's state as one record.  A slot's id is the number of the call
\* that filled it, in call order.
T == [i2c_buffer |-> i2c_buffer, queue_head |-> queue_head,
      queue_tail |-> queue_tail, TWCR |-> TWCR, TWDR |-> TWDR, TWSR |-> TWSR,
      twi_hw |-> twi_hw, twi_bus |-> twi_bus, rx_writes |-> rx_writes,
      i2c_done |-> i2c_done]

SetT(t) ==
    /\ i2c_buffer' = t.i2c_buffer
    /\ queue_head' = t.queue_head
    /\ queue_tail' = t.queue_tail
    /\ TWCR' = t.TWCR
    /\ TWDR' = t.TWDR
    /\ TWSR' = t.TWSR
    /\ twi_hw' = t.twi_hw
    /\ twi_bus' = t.twi_bus
    /\ rx_writes' = t.rx_writes
    /\ i2c_done' = t.i2c_done

\* i2c_init: queue empty, every slot free, TWCR = TWEN | TWIE | TWEA.
\* TWDR and TWSR hold their reset values 0xFF and 0xF8.
i2c_init ==
    [i2c_buffer |->
        [i \in Slots |->
            [device_address |-> 0, i2c_mode |-> 0, data |-> NullPointer,
             length |-> 0, next |-> NULL, id |-> 0]],
     queue_head |-> NULL,
     queue_tail |-> NULL,
     TWCR |-> TWEN + TWIE + TWEA,
     TWDR |-> 255,
     TWSR |-> 248,
     twi_hw |-> "idle",
     twi_bus |-> <<>>,
     rx_writes |-> <<>>,
     i2c_done |-> <<>>]

-----------------------------------------------------------------------------
(* TWI hardware: what a write to TWCR starts on the bus                    *)

\* Writing TWINT clears the interrupt flag and starts the next bus operation:
\* a START (after a STOP when TWSTO is written with it, a repeated START when
\* the bus is held), a STOP, or the operation that follows the event just
\* served: the address after a START, a data byte after an address or data
\* byte was sent, the reception of a byte answered with ACK or NACK as TWEA
\* is set or clear.  A write without TWINT leaves the flag and the bus alone.
HardwareAfter(t, value) ==
    IF ~HasBit(value, TWINT) THEN t.twi_hw
    ELSE IF HasBit(value, TWSTA)
         THEN (IF HasBit(value, TWSTO) \/ t.twi_hw = "idle"
               THEN "start" ELSE "repeated_start")
    ELSE IF HasBit(value, TWSTO) THEN "idle"
    ELSE IF t.twi_hw # "event" THEN t.twi_hw
    ELSE IF t.TWSR \in {8, 16}
         THEN (IF t.TWDR % 2 = 1 THEN "address_r" ELSE "address_w")
    ELSE IF t.TWSR \in {24, 32, 40, 48} THEN "data_tx"
    ELSE IF t.TWSR \in {64, 80}
         THEN (IF HasBit(value, TWEA) THEN "data_rx_ack" ELSE "data_rx_nack")
    ELSE "idle"

\* the id of the transaction at the head of the queue, 0 when it is empty
HeadId(t) == IF t.queue_head = NULL THEN 0 ELSE t.i2c_buffer[t.queue_head].id

\* TWCR = value
WriteTWCR(t, value) ==
    [t EXCEPT !.TWCR = value,
              !.twi_hw = HardwareAfter(t, value),
              !.twi_bus = Append(@, [reg |-> "TWCR", val |-> value,
                                     txn |-> HeadId(t)])]

\* TWDR = value
WriteTWDR(t, value) ==
    [t EXCEPT !.TWDR = value,
              !.twi_bus = Append(@, [reg |-> "TWDR", val |-> value,
                                     txn |-> HeadId(t)])]

\* The statuses with which the hardware can end the operation it is doing.
\* "event" is an interrupt that the handler has not answered with a write of
\* TWINT: the flag stays set and the handler is entered again.
HardwareStatus(t) ==
    CASE t.twi_hw = "start" -> {8}
      [] t.twi_hw = "repeated_start" -> {16}
      [] t.twi_hw = "address_w" -> {24, 32}
      [] t.twi_hw = "data_tx" -> {40, 48}
      [] t.twi_hw = "address_r" -> {64, 72}
      [] t.twi_hw = "data_rx_ack" -> {80}
      [] t.twi_hw = "data_rx_nack" -> {88}
      [] t.twi_hw = "event" -> {t.TWSR}
      [] OTHER -> {}

-----------------------------------------------------------------------------
(* src/i2c-digital-read/i2c.c : pool and queue                             *)

\* allocate_queue_slot handing out slot 0 again when no slot is free
allocate_queue_slot_reuse(t) ==
    IF \E i \in Slots : t.i2c_buffer[i].i2c_mode = 0
    THEN CHOOSE i \in Slots :
            /\ t.i2c_buffer[i].i2c_mode = 0
            /\ \A j \in Slots : t.i2c_buffer[j].i2c_mode = 0 => i <= j
    ELSE 0

allocate_queue_slot(t) ==
    IF \E i \in Slots : t.i2c_buffer[i].i2c_mode = 0
    THEN CHOOSE i \in Slots :
            /\ t.i2c_buffer[i].i2c_mode = 0
            /\ \A j \in Slots : t.i2c_buffer[j].i2c_mode = 0 => i <= j
    ELSE NULL

\* enqueue linking the item in front of the queue
i2c_enqueue_at_head(t, item) ==
    IF t.queue_tail = NULL
    THEN WriteTWCR([t EXCEPT !.queue_head = item, !.queue_tail = item],
                   TWEN + TWIE + TWEA + TWINT + TWSTA)
    ELSE [t EXCEPT !.i2c_buffer[item].next = t.queue_head,
                   !.queue_head = item]

i2c_enqueue(t, item) ==
    IF t.queue_tail = NULL
    THEN WriteTWCR([t EXCEPT !.queue_head = item, !.queue_tail = item],
                   TWEN + TWIE + TWEA + TWINT + TWSTA)
    ELSE [t EXCEPT !.i2c_buffer[t.queue_tail].next = item,
                   !.queue_tail = item]

\* dequeue leaving the mode of the slot it removes as it was
i2c_dequeue_keeps_mode(t) ==
    LET t1 == [t EXCEPT !.i2c_done = Append(@, t.i2c_buffer[t.queue_head].id),
                        !.queue_head = t.i2c_buffer[t.queue_head].next]
    IN IF t1.queue_head = NULL
       THEN WriteTWCR([t1 EXCEPT !.queue_tail = NULL],
                      TWEN + TWIE + TWEA + TWINT + TWSTO)
       ELSE WriteTWCR(t1, TWEN + TWIE + TWEA + TWINT + TWSTA + TWSTO)

i2c_dequeue(t) ==
    LET t1 == [t EXCEPT !.i2c_buffer[t.queue_head].i2c_mode = 0,
                        !.i2c_done = Append(@, t.i2c_buffer[t.queue_head].id),
                        !.queue_head = t.i2c_buffer[t.queue_head].next]
    IN IF t1.queue_head = NULL
       THEN WriteTWCR([t1 EXCEPT !.queue_tail = NULL],
                      TWEN + TWIE + TWEA + TWINT + TWSTO)
       ELSE WriteTWCR(t1, TWEN + TWIE + TWEA + TWINT + TWSTA + TWSTO)

-----------------------------------------------------------------------------
(* src/i2c-digital-read/i2c.c : calls                                      *)

\* the part of i2c_send_to and i2c_receive_from that claims and queues a slot
QueueTransaction(t, buffer_slot, device_address, data, length, mode, id) ==
    i2c_enqueue(
        [t EXCEPT !.i2c_buffer[buffer_slot] =
            [device_address |-> ToUint8(device_address),
             data |-> data,
             length |-> ToUint8(length),
             i2c_mode |-> mode,
             next |-> NULL,
             id |-> id]],
        buffer_slot)

\* i2c_send_to writing the START bit whether or not the queue was empty
i2c_send_to_always_start(t, device_address, data, length, id) ==
    LET buffer_slot == allocate_queue_slot(t) IN
    IF buffer_slot = NULL
    THEN t
    ELSE LET t1 == QueueTransaction(t, buffer_slot, device_address,
                                    Pointer("tx", data, 0), length,
                                    MASTER_TRANSMITTER_MODE, id)
         IN IF t.queue_tail = NULL
            THEN t1
            ELSE WriteTWCR(t1, TWEN + TWIE + TWEA + TWINT + TWSTA)

i2c_send_to(t, device_address, data, length, id) ==
    LET buffer_slot == allocate_queue_slot(t) IN
    IF buffer_slot = NULL
    THEN t
    ELSE QueueTransaction(t, buffer_slot, device_address,
                          Pointer("tx", data, 0), length,
                          MASTER_TRANSMITTER_MODE, id)

\* i2c_receive_from up to its sleep loop
i2c_receive_from(t, device_address, length, id) ==
    LET buffer_slot == allocate_queue_slot(t) IN
    IF buffer_slot = NULL
    THEN t
    ELSE QueueTransaction(t, buffer_slot, device_address,
                          Pointer("rx", <<>>, 0), length,
                          MASTER_RECEIVER_MODE, id)

-----------------------------------------------------------------------------
(* src/i2c-digital-read/i2c.c : interrupt handler                          *)

\* *(queue_head->data) read; a read past the caller's array finds `stray`
LoadByte(pointer, stray) ==
    IF pointer.mem = "tx" /\ pointer.off < Len(pointer.base)
    THEN pointer.base[pointer.off + 1]
    ELSE stray

\* the handler storing every byte at the start of the caller's buffer
StoreReceived_at_start(t) ==
    [t EXCEPT !.rx_writes =
        Append(@, [off |-> 0,
                   val |-> t.TWDR,
                   id |-> t.i2c_buffer[t.queue_head].id])]

\* *(queue_head->data) = TWDR
StoreReceived(t) ==
    [t EXCEPT !.rx_writes =
        Append(@, [off |-> t.i2c_buffer[t.queue_head].data.off,
                   val |-> t.TWDR,
                   id |-> t.i2c_buffer[t.queue_head].id])]

\* queue_head->data ++; queue_head->length --;
AdvanceCursor(t) ==
    [t EXCEPT !.i2c_buffer[t.queue_head].data.off = @ + 1,
              !.i2c_buffer[t.queue_head].length = ToUint8(@ - 1)]

\* The strings the handler prints.  The handler calls transmit_int with the
\* status code alone, the form declared in src/sketcher/uart.h; it is taken
\* here as the library's transmit_int (value, DECIMAL).
I2C_error == <<"I", "2", "C", " ", "e", "r", "r", "o", "r", ":", " ">>

CRLF == <<"\r", "\n">>

\* the handler loading the byte before the cursor has advanced
master_transmitter_handler_stale_cursor(t, u, status_code, stray) ==
    LET LoadNext(t1) ==
            WriteTWCR(WriteTWDR(t1, LoadByte(t1.i2c_buffer[t1.queue_head].data,
                                             stray)),
                      TWEN + TWIE + TWINT + TWEA)
    IN CASE status_code \in {40, 48} ->
                LET t1 == AdvanceCursor(t) IN
                IF t1.i2c_buffer[t1.queue_head].length = 0
                THEN [t |-> i2c_dequeue(t1), u |-> u]
                ELSE [t |-> AdvanceCursor(LoadNext(t)), u |-> u]
         [] status_code \in {24, 32} ->
                [t |-> LoadNext(t), u |-> u]
         [] OTHER ->
                LET u1 == transmit_string(u, I2C_error).u
                    u2 == transmit_int(u1, status_code, DECIMAL).u
                    u3 == transmit_string(u2, CRLF).u
                IN [t |-> t, u |-> u3]

\* the handler giving up the transaction at the first data byte not
\* acknowledged
master_transmitter_handler_abandons_nack(t, u, status_code, stray) ==
    LET LoadNext(t1) ==
            WriteTWCR(WriteTWDR(t1, LoadByte(t1.i2c_buffer[t1.queue_head].data,
                                             stray)),
                      TWEN + TWIE + TWINT + TWEA)
    IN CASE status_code = 40 ->
                LET t1 == AdvanceCursor(t) IN
                IF t1.i2c_buffer[t1.queue_head].length = 0
                THEN [t |-> i2c_dequeue(t1), u |-> u]
                ELSE [t |-> LoadNext(t1), u |-> u]
         [] status_code = 48 ->
                [t |-> i2c_dequeue(t), u |-> u]
         [] status_code \in {24, 32} ->
                [t |-> LoadNext(t), u |-> u]
         [] OTHER ->
                LET u1 == transmit_string(u, I2C_error).u
                    u2 == transmit_int(u1, status_code, DECIMAL).u
                    u3 == transmit_string(u2, CRLF).u
                IN [t |-> t, u |-> u3]

master_transmitter_handler(t, u, status_code, stray) ==
    LET LoadNext(t1) ==
            WriteTWCR(WriteTWDR(t1, LoadByte(t1.i2c_buffer[t1.queue_head].data,
                                             stray)),
                      TWEN + TWIE + TWINT + TWEA)
    IN CASE status_code \in {40, 48} ->
                LET t1 == AdvanceCursor(t) IN
                IF t1.i2c_buffer[t1.queue_head].length = 0
                THEN [t |-> i2c_dequeue(t1), u |-> u]
                ELSE [t |-> LoadNext(t1), u |-> u]
         [] status_code \in {24, 32} ->
                [t |-> LoadNext(t), u |-> u]
         [] OTHER ->
                LET u1 == transmit_string(u, I2C_error).u
                    u2 == transmit_int(u1, status_code, DECIMAL).u
                    u3 == transmit_string(u2, CRLF).u
                IN [t |-> t, u |-> u3]

\* the receiver handler giving up a read whose address was not acknowledged
master_receiver_handler_gives_up(t, status_code) ==
    LET Acknowledge(t1) ==
            WriteTWCR(t1, TWINT + TWEN + TWIE +
                          (IF t1.i2c_buffer[t1.queue_head].length > 1
                           THEN TWEA ELSE 0))
    IN CASE status_code = 80 -> Acknowledge(AdvanceCursor(StoreReceived(t)))
         [] status_code = 64 -> Acknowledge(t)
         [] status_code = 88 -> i2c_dequeue(StoreReceived(t))
         [] status_code = 72 -> i2c_dequeue(t)
         [] OTHER -> t

master_receiver_handler(t, status_code) ==
    LET Acknowledge(t1) ==
            WriteTWCR(t1, TWINT + TWEN + TWIE +
                          (IF t1.i2c_buffer[t1.queue_head].length > 1
                           THEN TWEA ELSE 0))
    IN CASE status_code = 80 -> Acknowledge(AdvanceCursor(StoreReceived(t)))
         [] status_code = 64 -> Acknowledge(t)
         [] status_code = 88 -> i2c_dequeue(StoreReceived(t))
         [] OTHER -> t

\* ISR (TWI_vect)
TWI_vect(t, u, stray) ==
    LET status_code == BitAnd(t.TWSR, 248)
    IN IF t.queue_head = NULL
       THEN [t |-> WriteTWCR(t, BitOr(t.TWCR, TWINT)), u |-> u]
       ELSE IF status_code = 8 \/ status_code = 16
       THEN [t |-> WriteTWCR(
                     WriteTWDR(t,
                        ToUint8(BitOr(
                            t.i2c_buffer[t.queue_head].device_address * 2,
                            IF t.i2c_buffer[t.queue_head].i2c_mode =
                                   MASTER_RECEIVER_MODE
                            THEN 1 ELSE 0))),
                     TWEN + TWIE + TWINT + TWEA),
             u |-> u]
       ELSE CASE t.i2c_buffer[t.queue_head].i2c_mode = MASTER_TRANSMITTER_MODE ->
                    master_transmitter_handler(t, u, status_code, stray)
              [] t.i2c_buffer[t.queue_head].i2c_mode = MASTER_RECEIVER_MODE ->
                    [t |-> master_receiver_handler(t, status_code), u |-> u]
              [] OTHER ->
                    [t |-> WriteTWCR(t, BitOr(t.TWCR, TWINT)), u |-> u]

-----------------------------------------------------------------------------
(* UART: inputs, calls and interrupts as actions                           *)

\* bounds of the model
MaxCalls == 3

MaxOut == 20

MaxPoolCalls == 3

\* the messages the callers submit
Strings == { <<>>, <<"c">>, <<"a", "b">>, <<"a", "%", "b">> }

IntValues == { -40 }

Bases == { DECIMAL, HEX }

LogEntry(op, text, number, base, ret) ==
    [op |-> op, text |-> text, number |-> number, base |-> base, ret |-> ret]

UdreEnabled == BitAnd(UCSR0B, 2 ^ UDRIE0) # 0

DoTransmitString(message) ==
    LET r == transmit_string(U, message) IN
    /\ ~halted
    /\ SetU(r.u)
    /\ tx_log' = Append(tx_log, LogEntry("string", message, 0, 0, r.ret))
    /\ UNCHANGED <<i2c_vars, rx_vars, gfx_vars, race_vars>>

\* value is the caller's argument; the parameter is a 16 bit int
DoTransmitInt(value, base) ==
    LET r == transmit_int(U, ToInt16(value), base) IN
    /\ ~halted
    /\ SetU(r.u)
    /\ tx_log' = Append(tx_log, LogEntry("int", <<>>, value, base, r.ret))
    /\ UNCHANGED <<i2c_vars, rx_vars, gfx_vars, race_vars>>

\* the hardware raises the UDRE interrupt only while UDRIE0 is set
UdreInterrupt ==
    /\ ~halted
    /\ UdreEnabled
    /\ Len(UDR0) < MaxOut
    /\ \E ub \in UBChoices : SetU(USART_UDRE_vect(U, ub))
    /\ UNCHANGED tx_log
    /\ UNCHANGED <<i2c_vars, rx_vars, gfx_vars, race_vars>>

TransmitString ==
    /\ Len(tx_log) < MaxCalls
    /\ \E message \in Strings : DoTransmitString(message)

TransmitInt ==
    /\ Len(tx_log) < MaxCalls
    /\ \E value \in IntValues, base \in Bases : DoTransmitInt(value, base)

\* decimal requests at the ends of the range of int16_t, and zero
EdgeValues == { -32768, 0, 9 }

\* bound of the model: the calls of a run whose completion is followed
MaxLiveCalls == 2

TransmitEdgeInt ==
    /\ Len(tx_log) < MaxLiveCalls
    /\ \E value \in EdgeValues : DoTransmitInt(value, DECIMAL)

TransmitEdgeString ==
    /\ Len(tx_log) < MaxLiveCalls
    /\ \E message \in Strings : DoTransmitString(message)

\* one decimal request on a fresh driver, any 16 bit value
TransmitDecimal ==
    /\ tx_log = <<>>
    /\ \E value \in Int16 : DoTransmitInt(value, DECIMAL)

\* one hexadecimal request on a fresh driver, any 16 bit pattern
TransmitHexadecimal ==
    /\ tx_log = <<>>
    /\ \E value \in 0 .. 65535 : DoTransmitInt(value, HEX)

UartInit ==
    /\ transmit_queue = uart_init.transmit_queue
    /\ head = uart_init.head
    /\ tail = uart_init.tail
    /\ free_list = uart_init.free_list
    /\ digit_mask = uart_init.digit_mask
    /\ shift_bits = uart_init.shift_bits
    /\ UCSR0B = uart_init.UCSR0B
    /\ UDR0 = uart_init.UDR0
    /\ halted = uart_init.halted
    /\ tx_log = <<>>

\* The pool is first filled, handler not running, with PoolFillCalls equal
\* string requests; the calls after that are chosen freely.
PoolFillCalls == BUFFER_LENGTH - 2

PoolTransmitString ==
    /\ Len(tx_log) < BUFFER_LENGTH + MaxPoolCalls
    /\ \E message \in (IF Len(tx_log) < PoolFillCalls
                       THEN { <<"a", "b">> }
                       ELSE { <<"a", "b">>, <<"c">> }) :
           DoTransmitString(message)

PoolTransmitInt ==
    /\ PoolFillCalls <= Len(tx_log)
    /\ Len(tx_log) < BUFFER_LENGTH + MaxPoolCalls
    /\ \E value \in { 7, 305 }, base \in Bases : DoTransmitInt(value, base)

\* uart_printf: the formats are sequences of at most MaxTokens of these
MaxTokens == 3

Tokens == { <<"a">>, <<"%", "d">>, <<"%", "x">>, <<"%", "s">>, <<"%", "%">> }

RECURSIVE TokenStrings(_)
TokenStrings(n) ==
    IF n = 0 THEN { <<>> }
    ELSE LET shorter == TokenStrings(n - 1) IN
         shorter \cup { f \o t : f \in shorter, t \in Tokens }

Formats == TokenStrings(MaxTokens)

\* the k-th argument of a call
ArgNumber(k) == 6 + k

ArgText(k) == IF k % 2 = 1 THEN <<"h", "i">> ELSE <<"o">>

\* the arguments a caller passes for a format: one per specifier, of its type
RECURSIVE ArgsFor(_, _)
ArgsFor(format, k) ==
    IF Len(format) < 2 THEN <<>>
    ELSE IF format[1] # "%" THEN ArgsFor(Tail(format), k)
    ELSE IF format[2] \in {"d", "x"}
    THEN <<[kind |-> "int", number |-> ArgNumber(k), text |-> <<>>]>>
         \o ArgsFor(Tail(Tail(format)), k + 1)
    ELSE IF format[2] = "s"
    THEN <<[kind |-> "string", number |-> 0, text |-> ArgText(k)]>>
         \o ArgsFor(Tail(Tail(format)), k + 1)
    ELSE ArgsFor(Tail(Tail(format)), k)

\* what the memory behind the format's terminator may hold
Beyond == { <<>>, <<"z">>, <<"%", "d">> }

\* what a read of a missing or mistyped argument may yield
Garbage == { [number |-> 0, text |-> <<>>], [number |-> 5, text |-> <<"g">>] }

\* one uart_printf call on a fresh driver
UartPrintf ==
    /\ tx_log = <<>>
    /\ ~halted
    /\ \E format \in Formats, beyond \in Beyond, garbage \in Garbage :
         LET args == ArgsFor(format, 1) IN
         /\ SetU(uart_printf(U, format, args, beyond, garbage))
         /\ tx_log' = <<[op |-> "printf", text |-> format, number |-> 0,
                         base |-> 0, ret |-> 0, args |-> args]>>
    /\ UNCHANGED <<i2c_vars, rx_vars, gfx_vars, race_vars>>

-----------------------------------------------------------------------------
(* src/library/uart.c : transmit_string statement by statement, the UDRE   *)
(* handler running between any two statements.  Neither function masks     *)
(* interrupts, and head, tail and free_list are not volatile.               *)

\* bound of the model: calls of transmit_string in a run
MaxRaceCalls == 2

RaceStrings == { <<>>, <<"c">> }

SlotEvent(event, slot) == [event |-> event, slot |-> slot]

\* transmit_string (message) is called
CallTransmitString ==
    /\ call_pc = "idle"
    /\ Len(tx_log) < MaxRaceCalls
    /\ \E text \in RaceStrings : call_message' = text
    /\ call_pc' = "allocate_item"
    /\ UNCHANGED <<call_item, slot_log, tail_fault>>
    /\ UNCHANGED <<uart_vars, i2c_vars, rx_vars, gfx_vars, i2c_race_vars,
                   blink_vars, rx_race_vars, other_vars>>

\* allocate_item: next_item = free_list
AllocateRead ==
    /\ call_pc = "allocate_item"
    /\ call_item' = free_list
    /\ call_pc' = "allocate_test"
    /\ UNCHANGED <<call_message, slot_log, tail_fault>>
    /\ UNCHANGED <<uart_vars, i2c_vars, rx_vars, gfx_vars, i2c_race_vars,
                   blink_vars, rx_race_vars, other_vars>>

\* allocate_item: if (next_item == NULL) return NULL; and transmit_string's
\* return 0 that follows it
AllocateTest ==
    /\ call_pc = "allocate_test"
    /\ IF call_item = NULL
       THEN /\ tx_log' = Append(tx_log,
                                LogEntry("string", call_message, 0, 0, 0))
            /\ call_pc' = "idle"
       ELSE /\ call_pc' = "allocate_unlink"
            /\ UNCHANGED tx_log
    /\ UNCHANGED <<transmit_queue, head, tail, free_list, digit_mask,
                   shift_bits, UCSR0B, UDR0, halted>>
    /\ UNCHANGED <<call_message, call_item, slot_log, tail_fault>>
    /\ UNCHANGED <<i2c_vars, rx_vars, gfx_vars, i2c_race_vars,
                   blink_vars, rx_race_vars, other_vars>>

\* allocate_item: free_list = free_list->next; return next_item.  free_list
\* is not volatile: the build may read it again here or use the value it
\* read into next_item.
AllocateUnlink ==
    /\ call_pc = "allocate_unlink"
    /\ \E reload \in BOOLEAN :
           free_list' = IF reload /\ free_list # NULL
                        THEN transmit_queue[free_list].next
                        ELSE transmit_queue[call_item].next
    /\ slot_log' = Append(slot_log, SlotEvent("handed", call_item))
    /\ call_pc' = "fill"
    /\ UNCHANGED <<transmit_queue, head, tail, digit_mask, shift_bits, UCSR0B,
                   UDR0, halted, tx_log>>
    /\ UNCHANGED <<call_message, call_item, tail_fault>>
    /\ UNCHANGED <<i2c_vars, rx_vars, gfx_vars, i2c_race_vars,
                   blink_vars, rx_race_vars, other_vars>>

\* next_item->data.text = message; next_item->transmit_function = ...
FillItem ==
    /\ call_pc = "fill"
    /\ transmit_queue' =
           [transmit_queue EXCEPT ![call_item].data.text = call_message,
                                  ![call_item].transmit_function = "string"]
    /\ call_pc' = "enqueue"
    /\ UNCHANGED <<head, tail, free_list, digit_mask, shift_bits, UCSR0B,
                   UDR0, halted, tx_log>>
    /\ UNCHANGED <<call_message, call_item, slot_log, tail_fault>>
    /\ UNCHANGED <<i2c_vars, rx_vars, gfx_vars, i2c_race_vars,
                   blink_vars, rx_race_vars, other_vars>>

\* enqueue: item->next = NULL
EnqueueClearNext ==
    /\ call_pc = "enqueue"
    /\ transmit_queue' = [transmit_queue EXCEPT ![call_item].next = NULL]
    /\ call_pc' = "enqueue_test"
    /\ UNCHANGED <<head, tail, free_list, digit_mask, shift_bits, UCSR0B,
                   UDR0, halted, tx_log>>
    /\ UNCHANGED <<call_message, call_item, slot_log, tail_fault>>
    /\ UNCHANGED <<i2c_vars, rx_vars, gfx_vars, i2c_race_vars,
                   blink_vars, rx_race_vars, other_vars>>

\* enqueue: if (head == NULL)
EnqueueTest ==
    /\ call_pc = "enqueue_test"
    /\ call_pc' = IF head = NULL THEN "enqueue_head" ELSE "enqueue_link"
    /\ UNCHANGED <<call_message, call_item, slot_log, tail_fault>>
    /\ UNCHANGED <<uart_vars, i2c_vars, rx_vars, gfx_vars, i2c_race_vars,
                   blink_vars, rx_race_vars, other_vars>>

\* enqueue, queue found empty: head = item
EnqueueHead ==
    /\ call_pc = "enqueue_head"
    /\ head' = call_item
    /\ call_pc' = "enqueue_first_tail"
    /\ UNCHANGED <<transmit_queue, tail, free_list, digit_mask, shift_bits,
                   UCSR0B, UDR0, halted, tx_log>>
    /\ UNCHANGED <<call_message, call_item, slot_log, tail_fault>>
    /\ UNCHANGED <<i2c_vars, rx_vars, gfx_vars, i2c_race_vars,
                   blink_vars, rx_race_vars, other_vars>>

\* enqueue, queue found empty: tail = item
EnqueueFirstTail ==
    /\ call_pc = "enqueue_first_tail"
    /\ tail' = call_item
    /\ call_pc' = "enqueue_udrie"
    /\ UNCHANGED <<transmit_queue, head, free_list, digit_mask, shift_bits,
                   UCSR0B, UDR0, halted, tx_log>>
    /\ UNCHANGED <<call_message, call_item, slot_log, tail_fault>>
    /\ UNCHANGED <<i2c_vars, rx_vars, gfx_vars, i2c_race_vars,
                   blink_vars, rx_race_vars, other_vars>>

\* enqueue, queue found empty: UCSR0B |= _BV (UDRIE0)
EnqueueUdrie ==
    /\ call_pc = "enqueue_udrie"
    /\ UCSR0B' = BitOr(UCSR0B, 2 ^ UDRIE0)
    /\ slot_log' = Append(slot_log, SlotEvent("enqueued", call_item))
    /\ call_pc' = "enable"
    /\ UNCHANGED <<transmit_queue, head, tail, free_list, digit_mask,
                   shift_bits, UDR0, halted, tx_log>>
    /\ UNCHANGED <<call_message, call_item, tail_fault>>
    /\ UNCHANGED <<i2c_vars, rx_vars, gfx_vars, i2c_race_vars,
                   blink_vars, rx_race_vars, other_vars>>

\* enqueue, queue found non-empty: tail->next = item.  With tail NULL the
\* store goes through a null pointer; the queue's slots are not where it
\* lands.
EnqueueLink ==
    /\ call_pc = "enqueue_link"
    /\ IF tail = NULL
       THEN /\ tail_fault' = TRUE
            /\ UNCHANGED transmit_queue
       ELSE /\ transmit_queue' =
                   [transmit_queue EXCEPT ![tail].next = call_item]
            /\ UNCHANGED tail_fault
    /\ call_pc' = "enqueue_tail"
    /\ UNCHANGED <<head, tail, free_list, digit_mask, shift_bits, UCSR0B,
                   UDR0, halted, tx_log>>
    /\ UNCHANGED <<call_message, call_item, slot_log>>
    /\ UNCHANGED <<i2c_vars, rx_vars, gfx_vars, i2c_race_vars,
                   blink_vars, rx_race_vars, other_vars>>

\* enqueue, queue found non-empty: tail = item
EnqueueTail ==
    /\ call_pc = "enqueue_tail"
    /\ tail' = call_item
    /\ slot_log' = Append(slot_log, SlotEvent("enqueued", call_item))
    /\ call_pc' = "enable"
    /\ UNCHANGED <<transmit_queue, head, free_list, digit_mask, shift_bits,
                   UCSR0B, UDR0, halted, tx_log>>
    /\ UNCHANGED <<call_message, call_item, tail_fault>>
    /\ UNCHANGED <<i2c_vars, rx_vars, gfx_vars, i2c_race_vars,
                   blink_vars, rx_race_vars, other_vars>>

\* transmit_string: UCSR0B |= 0x20; return strlen (message);
EnableAndReturn ==
    /\ call_pc = "enable"
    /\ UCSR0B' = BitOr(UCSR0B, 32)
    /\ tx_log' = Append(tx_log, LogEntry("string", call_message, 0, 0,
                                         strlen(call_message)))
    /\ call_pc' = "idle"
    /\ UNCHANGED <<transmit_queue, head, tail, free_list, digit_mask,
                   shift_bits, UDR0, halted>>
    /\ UNCHANGED <<call_message, call_item, slot_log, tail_fault>>
    /\ UNCHANGED <<i2c_vars, rx_vars, gfx_vars, i2c_race_vars,
                   blink_vars, rx_race_vars, other_vars>>

\* ISR (USART_UDRE_vect), whole, wherever the call is
RaceUdreInterrupt ==
    /\ ~halted
    /\ UdreEnabled
    /\ Len(UDR0) < MaxOut
    /\ \E ub \in UBChoices :
           LET u == USART_UDRE_vect(U, ub) IN
           /\ SetU(u)
           /\ slot_log' = IF u.free_list # free_list
                          THEN Append(slot_log,
                                      SlotEvent("released", u.free_list))
                          ELSE slot_log
    /\ UNCHANGED tx_log
    /\ UNCHANGED <<call_pc, call_message, call_item, tail_fault>>
    /\ UNCHANGED <<i2c_vars, rx_vars, gfx_vars, i2c_race_vars,
                   blink_vars, rx_race_vars, other_vars>>

UartRaceInit ==
    /\ call_pc = "idle"
    /\ call_message = <<>>
    /\ call_item = NULL
    /\ slot_log = <<>>
    /\ tail_fault = FALSE

I2cRaceInit ==
    /\ twi_call_pc = "idle"
    /\ twi_call = [device_address |-> 0, data |-> <<>>]
    /\ twi_call_slot = NULL
    /\ queue_tail_fault = FALSE

\* blink.c main (): led_state = 0x00
LedInit == led_state = 0

RxRaceInit == rx_arrived = <<>>

AxisInit == fast_line = [function |-> "none", pixels |-> <<>>]

Origin == [row |-> 0, column |-> 0]

\* before uart_init nothing is known of transmit_queue
RingInit ==
    ring = [build |-> "none", messages |-> <<>>, data_length |-> 0,
            head_pos |-> 0, tail_pos |-> 0, udrie |-> FALSE, calls |-> 0]

CircleInit ==
    circle = [pc |-> "idle", center |-> Origin, r |-> 0, column |-> 0,
              row |-> 0, error |-> 0, pixels |-> <<>>]

-----------------------------------------------------------------------------
(* src/i2c-blink/i2c.c : the transmit-only variant of the driver           *)

\* i2c_init and allocate_queue_slot are the same text in both files

blink_i2c_send_to(t, device_address, data, length, id) ==
    LET buffer_slot == allocate_queue_slot(t) IN
    IF buffer_slot = NULL
    THEN t
    ELSE LET t1 == [t EXCEPT !.i2c_buffer[buffer_slot] =
                        [device_address |-> ToUint8(device_address),
                         data |-> Pointer("tx", data, 0),
                         length |-> ToUint8(length),
                         i2c_mode |-> MASTER_TRANSMITTER_MODE,
                         next |-> NULL,
                         id |-> id]]
         IN IF t1.queue_head = NULL
            THEN WriteTWCR([t1 EXCEPT !.queue_head = buffer_slot,
                                      !.queue_tail = buffer_slot],
                           TWEN + TWIE + TWEA + TWINT + TWSTA)
            ELSE [t1 EXCEPT !.i2c_buffer[t1.queue_tail].next = buffer_slot,
                            !.queue_tail = buffer_slot]

blink_master_transmitter_handler(t, stray) ==
    LET status_code == BitAnd(t.TWSR, 248)
        LoadNext(t1) ==
            WriteTWCR(WriteTWDR(t1, LoadByte(t1.i2c_buffer[t1.queue_head].data,
                                             stray)),
                      TWEN + TWIE + TWINT + TWEA)
    IN CASE status_code \in {8, 16} ->
                WriteTWCR(WriteTWDR(t,
                            ToUint8(t.i2c_buffer[t.queue_head].device_address
                                    * 2)),
                          TWEN + TWIE + TWINT + TWEA)
         [] status_code \in {40, 48} ->
                LET t1 == AdvanceCursor(t) IN
                IF t1.i2c_buffer[t1.queue_head].length = 0
                THEN LET t2 == [t1 EXCEPT
                                  !.i2c_buffer[t1.queue_head].i2c_mode = 0,
                                  !.i2c_done =
                                      Append(@, t1.i2c_buffer[t1.queue_head].id),
                                  !.queue_head =
                                      t1.i2c_buffer[t1.queue_head].next]
                     IN IF t2.queue_head # NULL
                        THEN WriteTWCR(t2, TWINT + TWSTA + TWEN + TWIE)
                        ELSE WriteTWCR([t2 EXCEPT !.queue_tail = NULL],
                                       TWEN + TWIE + TWEA + TWINT + TWSTO)
                ELSE LoadNext(t1)
         [] status_code \in {24, 32} -> LoadNext(t)
         [] OTHER -> t

\* ISR (TWI_vect) of the variant
blink_TWI_vect(t, stray) ==
    IF t.queue_head = NULL
    THEN WriteTWCR(t, BitOr(t.TWCR, TWINT))
    ELSE IF t.i2c_buffer[t.queue_head].i2c_mode = MASTER_TRANSMITTER_MODE
    THEN blink_master_transmitter_handler(t, stray)
    ELSE WriteTWCR(t, BitOr(t.TWCR, TWINT))

-----------------------------------------------------------------------------
(* I2C: calls and interrupts as actions                                    *)

\* bounds of the model
MaxI2cCalls == 2

MaxIsr == 7

\* the callers' arguments: i2c_send_to (device_address, data, Len(data)) and
\* i2c_receive_from (device_address, buffer, length)
SendArguments ==
    { [device_address |-> 32, data |-> <<0, 254>>],
      [device_address |-> 39, data |-> <<9>>],
      [device_address |-> 39, data |-> <<1, 2, 3>>] }

\* the lengths callers pass to i2c_send_to (unsigned int length), those the
\* slot's uint8_t length cannot hold included
EdgeLengths == { 0, 1, 2, 255, 256, 257 }

\* an array of n bytes in the caller
CallerBytes(n) == [i \in 1 .. n |-> i % 256]

ReceiveArguments ==
    { [device_address |-> 39, length |-> 1],
      [device_address |-> 32, length |-> 2] }

\* the bytes a device answers a read with
RxBytes == { 90, 165 }

\* what a read past the caller's array finds
StrayBytes == { 255 }

\* A burst of calls fills the pool before the first interrupt is served (the
\* bus is orders of magnitude slower than the CPU): PoolBurst calls of
\* i2c_send_to(FillAddr, FillData, 1).  A run has no burst or a whole one.
PoolBurst == BUFFER_LENGTH

FillAddr == 32

FillData == <<9>>

BurstCalls == { i \in 1 .. Len(i2c_log) : i2c_log[i].burst }

BurstOver == Cardinality(BurstCalls) \in { 0, PoolBurst }

CallsAfterBurst == Len(i2c_log) - Cardinality(BurstCalls)

I2cCall(op, device_address, data, length, accepted, burst) ==
    [op |-> op, device_address |-> device_address, data |-> data,
     length |-> length, accepted |-> accepted, burst |-> burst]

\* what the caller of i2c_receive_from finds when the call returns
ReturnRecord(t, id, length, accepted) ==
    [id |-> id, length |-> length, accepted |-> accepted,
     completed |-> \E i \in 1 .. Len(t.i2c_done) : t.i2c_done[i] = id,
     deposited |-> SelectSeq(t.rx_writes, LAMBDA w : w.id = id)]

\* the test of i2c_receive_from's sleep loop: buffer_slot->i2c_mode == 0
receive_wait_done_at_once(t, buffer_slot) == TRUE

receive_wait_done(t, buffer_slot) == t.i2c_buffer[buffer_slot].i2c_mode = 0

DoSendTo(device_address, data, burst) ==
    /\ SetT(i2c_send_to(T, device_address, data, Len(data),
                        Len(i2c_log) + 1))
    /\ i2c_log' = Append(i2c_log,
                         I2cCall("send", device_address, data, Len(data),
                                 allocate_queue_slot(T) # NULL, burst))
    /\ UNCHANGED <<i2c_pc, wait_slot, i2c_returns, twi_irqs, twsr_log, driver,
                   register_reads>>
    /\ UNCHANGED <<uart_vars, rx_vars, gfx_vars, race_vars>>

FillPool ==
    /\ driver = "i2c-digital-read"
    /\ twi_irqs = 0
    /\ CallsAfterBurst = 0
    /\ Len(i2c_log) < PoolBurst
    /\ DoSendTo(FillAddr, FillData, TRUE)

SendTo ==
    /\ driver = "i2c-digital-read"
    /\ i2c_pc = "main"
    /\ BurstOver
    /\ CallsAfterBurst < MaxI2cCalls
    /\ \E call \in SendArguments :
           DoSendTo(call.device_address, call.data, FALSE)

\* i2c_receive_from up to its return (no slot) or its sleep loop
\* i2c_send_to (FillAddr, data, length) with data an array of length bytes
SendLength ==
    /\ driver = "i2c-digital-read"
    /\ i2c_pc = "main"
    /\ Len(i2c_log) < MaxI2cCalls
    /\ \E length \in EdgeLengths :
           DoSendTo(FillAddr, CallerBytes(length), FALSE)

ReceiveFrom ==
    /\ driver = "i2c-digital-read"
    /\ i2c_pc = "main"
    /\ BurstOver
    /\ CallsAfterBurst < MaxI2cCalls
    /\ \E call \in ReceiveArguments :
           LET buffer_slot == allocate_queue_slot(T)
               id == Len(i2c_log) + 1
           IN /\ SetT(i2c_receive_from(T, call.device_address, call.length,
                                       id))
              /\ i2c_log' = Append(i2c_log,
                                   I2cCall("receive", call.device_address,
                                           <<>>, call.length,
                                           buffer_slot # NULL, FALSE))
              /\ IF buffer_slot = NULL
                 THEN /\ i2c_returns' =
                            Append(i2c_returns,
                                   ReturnRecord(T, id, call.length, FALSE))
                      /\ UNCHANGED <<i2c_pc, wait_slot>>
                 ELSE /\ i2c_pc' = "receive_wait"
                      /\ wait_slot' = buffer_slot
                      /\ UNCHANGED i2c_returns
    /\ UNCHANGED <<twi_irqs, twsr_log, driver, register_reads>>
    /\ UNCHANGED <<uart_vars, rx_vars, gfx_vars, race_vars>>

\* the sleep loop of i2c_receive_from finds the slot released and returns
\* bound of the model: the longest read a caller asks for
MaxReadLength == 3

\* i2c_receive_from (39, buffer, length) for every length of 1 .. MaxReadLength
ReceiveBytes ==
    /\ driver = "i2c-digital-read"
    /\ i2c_pc = "main"
    /\ Len(i2c_log) < MaxI2cCalls
    /\ \E length \in 1 .. MaxReadLength :
           LET buffer_slot == allocate_queue_slot(T)
               id == Len(i2c_log) + 1
           IN /\ SetT(i2c_receive_from(T, 39, length, id))
              /\ i2c_log' = Append(i2c_log,
                                   I2cCall("receive", 39, <<>>, length,
                                           buffer_slot # NULL, FALSE))
              /\ IF buffer_slot = NULL
                 THEN /\ i2c_returns' =
                            Append(i2c_returns,
                                   ReturnRecord(T, id, length, FALSE))
                      /\ UNCHANGED <<i2c_pc, wait_slot>>
                 ELSE /\ i2c_pc' = "receive_wait"
                      /\ wait_slot' = buffer_slot
                      /\ UNCHANGED i2c_returns
    /\ UNCHANGED <<twi_irqs, twsr_log, driver, register_reads>>
    /\ UNCHANGED <<uart_vars, rx_vars, gfx_vars, race_vars>>

ReceiveReturn ==
    /\ i2c_pc \in { "receive_wait", "read_register_wait" }
    /\ receive_wait_done(T, wait_slot)
    /\ i2c_pc' = IF i2c_pc = "receive_wait" THEN "main"
                 ELSE "read_register_return"
    /\ wait_slot' = NULL
    /\ i2c_returns' = Append(i2c_returns,
                             ReturnRecord(T, Len(i2c_log),
                                          i2c_log[Len(i2c_log)].length, TRUE))
    /\ UNCHANGED <<i2c_buffer, queue_head, queue_tail, TWCR, TWDR, TWSR,
                   twi_hw, twi_bus, rx_writes, i2c_done, i2c_log, twi_irqs,
                   twsr_log, driver, register_reads>>
    /\ UNCHANGED <<uart_vars, rx_vars, gfx_vars, race_vars>>

\* the caller's arguments of i2c_read_register (device_address,
\* device_register)
RegisterArguments == { [device_address |-> 32, device_register |-> 9] }

\* the return value of an i2c_read_register that has not returned yet
PENDING == -1

\* i2c_read_register up to the return of its i2c_send_to
ReadRegisterCall ==
    /\ driver = "i2c-digital-read"
    /\ i2c_pc = "main"
    /\ BurstOver
    /\ CallsAfterBurst + 2 <= MaxI2cCalls
    /\ \E call \in RegisterArguments :
           /\ SetT(i2c_send_to(T, call.device_address,
                               <<call.device_register>>, 1,
                               Len(i2c_log) + 1))
           /\ i2c_log' = Append(i2c_log,
                                I2cCall("send", call.device_address,
                                        <<call.device_register>>, 1,
                                        allocate_queue_slot(T) # NULL, FALSE))
           /\ register_reads' =
                  Append(register_reads,
                         [device_address |-> call.device_address,
                          device_register |-> call.device_register,
                          idle |-> queue_head = NULL /\ twi_hw = "idle"
                                   /\ i2c_log = <<>>,
                          ret |-> PENDING])
    /\ i2c_pc' = "read_register"
    /\ UNCHANGED <<wait_slot, i2c_returns, twi_irqs, twsr_log, driver>>
    /\ UNCHANGED <<uart_vars, rx_vars, gfx_vars, race_vars>>

\* the i2c_receive_from of i2c_read_register, up to its return (no slot) or
\* its sleep loop
ReadRegisterReceive ==
    /\ i2c_pc = "read_register"
    /\ LET call == register_reads[Len(register_reads)]
           buffer_slot == allocate_queue_slot(T)
           id == Len(i2c_log) + 1
       IN /\ SetT(i2c_receive_from(T, call.device_address, 1, id))
          /\ i2c_log' = Append(i2c_log,
                               I2cCall("receive", call.device_address, <<>>,
                                       1, buffer_slot # NULL, FALSE))
          /\ IF buffer_slot = NULL
             THEN /\ i2c_returns' =
                        Append(i2c_returns, ReturnRecord(T, id, 1, FALSE))
                  /\ i2c_pc' = "read_register_return"
                  /\ UNCHANGED wait_slot
             ELSE /\ i2c_pc' = "read_register_wait"
                  /\ wait_slot' = buffer_slot
                  /\ UNCHANGED i2c_returns
    /\ UNCHANGED <<twi_irqs, twsr_log, driver, register_reads>>
    /\ UNCHANGED <<uart_vars, rx_vars, gfx_vars, race_vars>>

\* return register_contents: the byte the read stored in it, or, when
\* nothing was stored, whatever the uninitialised local holds
ReadRegisterReturn ==
    /\ i2c_pc = "read_register_return"
    /\ LET deposited == i2c_returns[Len(i2c_returns)].deposited IN
       \E register_contents \in
              (IF deposited = <<>> THEN StrayBytes
               ELSE { deposited[Len(deposited)].val }) :
           register_reads' =
               [register_reads EXCEPT ![Len(register_reads)].ret =
                                          register_contents]
    /\ i2c_pc' = "main"
    /\ UNCHANGED <<i2c_buffer, queue_head, queue_tail, TWCR, TWDR, TWSR,
                   twi_hw, twi_bus, rx_writes, i2c_done, wait_slot, i2c_log,
                   i2c_returns, twi_irqs, twsr_log, driver>>
    /\ UNCHANGED <<uart_vars, rx_vars, gfx_vars, race_vars>>

\* The events with which the hardware raises the TWI interrupt: the status
\* it reports and, after a reception, the byte it leaves in TWDR.
HardwareEvents(t) ==
    { [status |-> s, data |-> d] :
        s \in HardwareStatus(t),
        d \in (IF t.twi_hw \in {"data_rx_ack", "data_rx_nack"}
               THEN RxBytes ELSE {t.TWDR}) }

RaiseInterrupt(t, event) ==
    [t EXCEPT !.TWSR = event.status, !.TWDR = event.data, !.twi_hw = "event"]

TwiEnabled == HasBit(TWCR, TWIE)

HwInterrupt ==
    /\ driver = "i2c-digital-read"
    /\ BurstOver
    /\ TwiEnabled
    /\ twi_irqs < MaxIsr
    /\ \E event \in HardwareEvents(T), stray \in StrayBytes :
           LET r == TWI_vect(RaiseInterrupt(T, event), U, stray) IN
           /\ SetT(r.t)
           /\ SetU(r.u)
           /\ twsr_log' = Append(twsr_log, event.status)
    /\ twi_irqs' = twi_irqs + 1
    /\ UNCHANGED <<i2c_pc, wait_slot, i2c_log, i2c_returns, driver, tx_log,
                   register_reads>>
    /\ UNCHANGED <<rx_vars, gfx_vars, race_vars>>

BlinkSendTo ==
    /\ driver = "i2c-blink"
    /\ Len(i2c_log) < MaxI2cCalls
    /\ \E call \in SendArguments :
           /\ SetT(blink_i2c_send_to(T, call.device_address, call.data,
                                     Len(call.data), Len(i2c_log) + 1))
           /\ i2c_log' = Append(i2c_log,
                                I2cCall("send", call.device_address,
                                        call.data, Len(call.data),
                                        allocate_queue_slot(T) # NULL, FALSE))
    /\ UNCHANGED <<i2c_pc, wait_slot, i2c_returns, twi_irqs, twsr_log, driver,
                   register_reads>>
    /\ UNCHANGED <<uart_vars, rx_vars, gfx_vars, race_vars>>

BlinkInterrupt ==
    /\ driver = "i2c-blink"
    /\ TwiEnabled
    /\ twi_irqs < MaxIsr
    /\ \E event \in HardwareEvents(T), stray \in StrayBytes :
           /\ SetT(blink_TWI_vect(RaiseInterrupt(T, event), stray))
           /\ twsr_log' = Append(twsr_log, event.status)
    /\ twi_irqs' = twi_irqs + 1
    /\ UNCHANGED <<i2c_pc, wait_slot, i2c_log, i2c_returns, driver,
                   register_reads>>
    /\ UNCHANGED <<uart_vars, rx_vars, gfx_vars, race_vars>>

-----------------------------------------------------------------------------
(* src/i2c-digital-read/i2c.c : the sleep loop of i2c_receive_from,         *)
(* statement by statement.  sleep_mode () is sleep_enable (); sleep_cpu ();  *)
(* sleep_disable (): the instruction that follows sei () is not the sleep    *)
(* instruction, so an interrupt can be taken between the test and the sleep. *)

\* i2c_receive_from up to the first test of its loop
ReceiveLoopCall ==
    /\ driver = "i2c-digital-read"
    /\ i2c_pc = "main"
    /\ Len(i2c_log) < MaxI2cCalls
    /\ \E call \in ReceiveArguments :
           LET buffer_slot == allocate_queue_slot(T)
               id == Len(i2c_log) + 1
           IN /\ SetT(i2c_receive_from(T, call.device_address, call.length,
                                       id))
              /\ i2c_log' = Append(i2c_log,
                                   I2cCall("receive", call.device_address,
                                           <<>>, call.length,
                                           buffer_slot # NULL, FALSE))
              /\ IF buffer_slot = NULL
                 THEN /\ i2c_returns' =
                            Append(i2c_returns,
                                   ReturnRecord(T, id, call.length, FALSE))
                      /\ UNCHANGED <<i2c_pc, wait_slot>>
                 ELSE /\ i2c_pc' = "wait_test"
                      /\ wait_slot' = buffer_slot
                      /\ UNCHANGED i2c_returns
    /\ UNCHANGED <<twi_irqs, twsr_log, driver, register_reads>>
    /\ UNCHANGED <<uart_vars, rx_vars, gfx_vars, race_vars>>

\* while (buffer_slot->i2c_mode != 0)
WaitTest ==
    /\ i2c_pc = "wait_test"
    /\ IF i2c_buffer[wait_slot].i2c_mode # 0
       THEN /\ i2c_pc' = "wait_sei"
            /\ UNCHANGED <<wait_slot, i2c_returns>>
       ELSE /\ i2c_pc' = "main"
            /\ wait_slot' = NULL
            /\ i2c_returns' =
                   Append(i2c_returns,
                          ReturnRecord(T, Len(i2c_log),
                                       i2c_log[Len(i2c_log)].length, TRUE))
    /\ UNCHANGED <<i2c_buffer, queue_head, queue_tail, TWCR, TWDR, TWSR,
                   twi_hw, twi_bus, rx_writes, i2c_done, i2c_log, twi_irqs,
                   twsr_log, driver, register_reads>>
    /\ UNCHANGED <<uart_vars, rx_vars, gfx_vars, race_vars>>

\* sei (); and sleep_enable ();
WaitSei ==
    /\ i2c_pc = "wait_sei"
    /\ i2c_pc' = "wait_sleep"
    /\ UNCHANGED <<i2c_buffer, queue_head, queue_tail, TWCR, TWDR, TWSR,
                   twi_hw, twi_bus, rx_writes, i2c_done, wait_slot, i2c_log,
                   i2c_returns, twi_irqs, twsr_log, driver, register_reads>>
    /\ UNCHANGED <<uart_vars, rx_vars, gfx_vars, race_vars>>

\* sleep_cpu (): the processor stops until an interrupt is taken
WaitSleep ==
    /\ i2c_pc = "wait_sleep"
    /\ i2c_pc' = "asleep"
    /\ UNCHANGED <<i2c_buffer, queue_head, queue_tail, TWCR, TWDR, TWSR,
                   twi_hw, twi_bus, rx_writes, i2c_done, wait_slot, i2c_log,
                   i2c_returns, twi_irqs, twsr_log, driver, register_reads>>
    /\ UNCHANGED <<uart_vars, rx_vars, gfx_vars, race_vars>>

\* ISR (TWI_vect) taken between two statements of the loop, or waking the
\* sleeping processor, which then goes round to the test
WaitTwiInterrupt ==
    /\ driver = "i2c-digital-read"
    /\ TwiEnabled
    /\ twi_irqs < MaxIsr
    /\ \E event \in HardwareEvents(T), stray \in StrayBytes :
           LET r == TWI_vect(RaiseInterrupt(T, event), U, stray) IN
           /\ SetT(r.t)
           /\ SetU(r.u)
           /\ twsr_log' = Append(twsr_log, event.status)
    /\ twi_irqs' = twi_irqs + 1
    /\ i2c_pc' = IF i2c_pc = "asleep" THEN "wait_test" ELSE i2c_pc
    /\ UNCHANGED <<wait_slot, i2c_log, i2c_returns, driver, tx_log,
                   register_reads>>
    /\ UNCHANGED <<rx_vars, gfx_vars, race_vars>>

-----------------------------------------------------------------------------
(* src/i2c-blink/blink.c : the program around the transmit-only driver.    *)
(* data_buffer is handed to the driver by address; the transactions below  *)
(* carry the bytes it held when i2c_send_to was called.                     *)

GPIO_I2C_ADDRESS == 64

IODIR_REGISTER == 0

GPIO_REGISTER == 9

\* bound of the model: the timer interrupts of a run
MaxTimerIsr == 3

\* i2c_send_to (GPIO_I2C_ADDRESS, data_buffer, 2)
BlinkSendBuffer(data_buffer) ==
    /\ SetT(blink_i2c_send_to(T, GPIO_I2C_ADDRESS, data_buffer, 2,
                              Len(i2c_log) + 1))
    /\ i2c_log' = Append(i2c_log,
                         I2cCall("send", GPIO_I2C_ADDRESS, data_buffer, 2,
                                 allocate_queue_slot(T) # NULL, FALSE))
    /\ UNCHANGED <<i2c_pc, wait_slot, i2c_returns, twi_irqs, twsr_log, driver,
                   register_reads>>
    /\ UNCHANGED <<uart_vars, rx_vars, gfx_vars, uart_race_vars,
                   i2c_race_vars, rx_race_vars, other_vars>>

\* main (): the IODIR setup is sent once, before the first sei ()
BlinkMain ==
    /\ driver = "i2c-blink"
    /\ i2c_log = <<>>
    /\ BlinkSendBuffer(<<IODIR_REGISTER, 254>>)
    /\ UNCHANGED led_state

\* ISR (TIMER1_OVF_vect): led_state = ~led_state & 0x01, then the new state
\* is sent from inside the handler
TIMER1_OVF_vect ==
    /\ driver = "i2c-blink"
    /\ i2c_log # <<>>
    /\ Len(i2c_log) <= MaxTimerIsr
    /\ led_state' = BitAnd(255 - led_state, 1)
    /\ BlinkSendBuffer(<<GPIO_REGISTER, BitAnd(255 - led_state, 1)>>)

\* The statuses neither handler has a case of its own for: a bus error
\* (0x00) and arbitration lost (0x38).  The hardware can end any operation
\* in progress with one of them.
UnrecognisedStatuses == { 0, 56 }

OperationInProgress == twi_hw \notin { "idle", "event" }

\* ISR (TWI_vect) of i2c-digital-read entered with such a status
UnrecognisedInterrupt ==
    /\ driver = "i2c-digital-read"
    /\ BurstOver
    /\ TwiEnabled
    /\ twi_irqs < MaxIsr
    /\ OperationInProgress
    /\ \E status \in UnrecognisedStatuses, stray \in StrayBytes :
           LET r == TWI_vect(RaiseInterrupt(T, [status |-> status,
                                                data |-> TWDR]),
                             U, stray)
           IN /\ SetT(r.t)
              /\ SetU(r.u)
              /\ twsr_log' = Append(twsr_log, status)
    /\ twi_irqs' = twi_irqs + 1
    /\ UNCHANGED <<i2c_pc, wait_slot, i2c_log, i2c_returns, driver, tx_log,
                   register_reads>>
    /\ UNCHANGED <<rx_vars, gfx_vars, race_vars>>

\* ISR (TWI_vect) of i2c-blink entered with such a status
BlinkUnrecognisedInterrupt ==
    /\ driver = "i2c-blink"
    /\ TwiEnabled
    /\ twi_irqs < MaxIsr
    /\ OperationInProgress
    /\ \E status \in UnrecognisedStatuses, stray \in StrayBytes :
           /\ SetT(blink_TWI_vect(RaiseInterrupt(T, [status |-> status,
                                                     data |-> TWDR]),
                                  stray))
           /\ twsr_log' = Append(twsr_log, status)
    /\ twi_irqs' = twi_irqs + 1
    /\ UNCHANGED <<i2c_pc, wait_slot, i2c_log, i2c_returns, driver,
                   register_reads>>
    /\ UNCHANGED <<uart_vars, rx_vars, gfx_vars, race_vars>>

-----------------------------------------------------------------------------
(* src/i2c-digital-read/i2c.c : i2c_send_to statement by statement, the    *)
(* TWI handler running between any two statements.  Interrupts are not      *)
(* masked in i2c_send_to or enqueue.                                        *)

\* i2c_send_to (device_address, data, length) is called
CallSendTo ==
    /\ driver = "i2c-digital-read"
    /\ twi_call_pc = "idle"
    /\ Len(i2c_log) < MaxRaceCalls
    /\ \E call \in SendArguments : twi_call' = call
    /\ twi_call_pc' = "allocate_queue_slot"
    /\ UNCHANGED <<twi_call_slot, queue_tail_fault>>
    /\ UNCHANGED <<uart_vars, i2c_vars, rx_vars, gfx_vars, uart_race_vars,
                   blink_vars, rx_race_vars, other_vars>>

\* buffer_slot = allocate_queue_slot (); if (buffer_slot == NULL) return;
SendToAllocate ==
    /\ twi_call_pc = "allocate_queue_slot"
    /\ twi_call_slot' = allocate_queue_slot(T)
    /\ i2c_log' = Append(i2c_log,
                         I2cCall("send", twi_call.device_address,
                                 twi_call.data, Len(twi_call.data),
                                 allocate_queue_slot(T) # NULL, FALSE))
    /\ twi_call_pc' = IF allocate_queue_slot(T) = NULL THEN "idle" ELSE "fill"
    /\ UNCHANGED <<i2c_buffer, queue_head, queue_tail, TWCR, TWDR, TWSR,
                   twi_hw, twi_bus, rx_writes, i2c_done, i2c_pc, wait_slot,
                   i2c_returns, twi_irqs, twsr_log, driver, register_reads>>
    /\ UNCHANGED <<twi_call, queue_tail_fault>>
    /\ UNCHANGED <<uart_vars, rx_vars, gfx_vars, uart_race_vars,
                   blink_vars, rx_race_vars, other_vars>>

\* buffer_slot->device_address = ...; ... buffer_slot->next = NULL;
SendToFill ==
    /\ twi_call_pc = "fill"
    /\ i2c_buffer' =
           [i2c_buffer EXCEPT ![twi_call_slot] =
               [device_address |-> ToUint8(twi_call.device_address),
                data |-> Pointer("tx", twi_call.data, 0),
                length |-> ToUint8(Len(twi_call.data)),
                i2c_mode |-> MASTER_TRANSMITTER_MODE,
                next |-> NULL,
                id |-> Len(i2c_log)]]
    /\ twi_call_pc' = "enqueue_test"
    /\ UNCHANGED <<queue_head, queue_tail, TWCR, TWDR, TWSR, twi_hw, twi_bus,
                   rx_writes, i2c_done, i2c_pc, wait_slot, i2c_log,
                   i2c_returns, twi_irqs, twsr_log, driver, register_reads>>
    /\ UNCHANGED <<twi_call, twi_call_slot, queue_tail_fault>>
    /\ UNCHANGED <<uart_vars, rx_vars, gfx_vars, uart_race_vars,
                   blink_vars, rx_race_vars, other_vars>>

\* enqueue: if (queue_tail == NULL)
TwiEnqueueTest ==
    /\ twi_call_pc = "enqueue_test"
    /\ twi_call_pc' = IF queue_tail = NULL THEN "enqueue_head"
                      ELSE "enqueue_link"
    /\ UNCHANGED <<twi_call, twi_call_slot, queue_tail_fault>>
    /\ UNCHANGED <<uart_vars, i2c_vars, rx_vars, gfx_vars, uart_race_vars,
                   blink_vars, rx_race_vars, other_vars>>

\* enqueue, queue found empty: queue_head = item
TwiEnqueueHead ==
    /\ twi_call_pc = "enqueue_head"
    /\ queue_head' = twi_call_slot
    /\ twi_call_pc' = "enqueue_first_tail"
    /\ UNCHANGED <<i2c_buffer, queue_tail, TWCR, TWDR, TWSR, twi_hw, twi_bus,
                   rx_writes, i2c_done, i2c_pc, wait_slot, i2c_log,
                   i2c_returns, twi_irqs, twsr_log, driver, register_reads>>
    /\ UNCHANGED <<twi_call, twi_call_slot, queue_tail_fault>>
    /\ UNCHANGED <<uart_vars, rx_vars, gfx_vars, uart_race_vars,
                   blink_vars, rx_race_vars, other_vars>>

\* enqueue, queue found empty: queue_tail = item
TwiEnqueueFirstTail ==
    /\ twi_call_pc = "enqueue_first_tail"
    /\ queue_tail' = twi_call_slot
    /\ twi_call_pc' = "enqueue_start"
    /\ UNCHANGED <<i2c_buffer, queue_head, TWCR, TWDR, TWSR, twi_hw, twi_bus,
                   rx_writes, i2c_done, i2c_pc, wait_slot, i2c_log,
                   i2c_returns, twi_irqs, twsr_log, driver, register_reads>>
    /\ UNCHANGED <<twi_call, twi_call_slot, queue_tail_fault>>
    /\ UNCHANGED <<uart_vars, rx_vars, gfx_vars, uart_race_vars,
                   blink_vars, rx_race_vars, other_vars>>

\* enqueue, queue found empty: TWCR = ... | _BV (TWSTA); and the return
TwiEnqueueStart ==
    /\ twi_call_pc = "enqueue_start"
    /\ SetT(WriteTWCR(T, TWEN + TWIE + TWEA + TWINT + TWSTA))
    /\ twi_call_pc' = "idle"
    /\ UNCHANGED <<i2c_pc, wait_slot, i2c_log, i2c_returns, twi_irqs,
                   twsr_log, driver, register_reads>>
    /\ UNCHANGED <<twi_call, twi_call_slot, queue_tail_fault>>
    /\ UNCHANGED <<uart_vars, rx_vars, gfx_vars, uart_race_vars,
                   blink_vars, rx_race_vars, other_vars>>

\* enqueue, queue found non-empty: queue_tail->next = item.  With queue_tail
\* NULL the store goes through a null pointer; the slots are not where it
\* lands.
TwiEnqueueLink ==
    /\ twi_call_pc = "enqueue_link"
    /\ IF queue_tail = NULL
       THEN /\ queue_tail_fault' = TRUE
            /\ UNCHANGED i2c_buffer
       ELSE /\ i2c_buffer' =
                   [i2c_buffer EXCEPT ![queue_tail].next = twi_call_slot]
            /\ UNCHANGED queue_tail_fault
    /\ twi_call_pc' = "enqueue_tail"
    /\ UNCHANGED <<queue_head, queue_tail, TWCR, TWDR, TWSR, twi_hw, twi_bus,
                   rx_writes, i2c_done, i2c_pc, wait_slot, i2c_log,
                   i2c_returns, twi_irqs, twsr_log, driver, register_reads>>
    /\ UNCHANGED <<twi_call, twi_call_slot>>
    /\ UNCHANGED <<uart_vars, rx_vars, gfx_vars, uart_race_vars,
                   blink_vars, rx_race_vars, other_vars>>

\* enqueue, queue found non-empty: queue_tail = item; and the return
TwiEnqueueTail ==
    /\ twi_call_pc = "enqueue_tail"
    /\ queue_tail' = twi_call_slot
    /\ twi_call_pc' = "idle"
    /\ UNCHANGED <<i2c_buffer, queue_head, TWCR, TWDR, TWSR, twi_hw, twi_bus,
                   rx_writes, i2c_done, i2c_pc, wait_slot, i2c_log,
                   i2c_returns, twi_irqs, twsr_log, driver, register_reads>>
    /\ UNCHANGED <<twi_call, twi_call_slot, queue_tail_fault>>
    /\ UNCHANGED <<uart_vars, rx_vars, gfx_vars, uart_race_vars,
                   blink_vars, rx_race_vars, other_vars>>

I2cInit ==
    /\ i2c_buffer = i2c_init.i2c_buffer
    /\ queue_head = i2c_init.queue_head
    /\ queue_tail = i2c_init.queue_tail
    /\ TWCR = i2c_init.TWCR
    /\ TWDR = i2c_init.TWDR
    /\ TWSR = i2c_init.TWSR
    /\ twi_hw = i2c_init.twi_hw
    /\ twi_bus = i2c_init.twi_bus
    /\ rx_writes = i2c_init.rx_writes
    /\ i2c_done = i2c_init.i2c_done
    /\ i2c_pc = "main"
    /\ wait_slot = NULL
    /\ i2c_log = <<>>
    /\ i2c_returns = <<>>
    /\ twi_irqs = 0
    /\ twsr_log = <<>>
    /\ register_reads = <<>>

-----------------------------------------------------------------------------
(* src/library/uart.c : uart_getchar, uart_getline, USART_RX_vect          *)

\* bound of the model: the largest buffer a caller passes
MaxLineLength == 4

\* the bytes that arrive
RxChars == { "a", "b", "\r" }

RXCIE0 == 7

RxEnabled == BitAnd(UCSR0B, 2 ^ RXCIE0) # 0

BufferWrite(index, value, terminator) ==
    [index |-> index, value |-> value, terminator |-> terminator]

\* uart_getline is called and enters its first uart_getchar
GetlineCall ==
    /\ getline_pc = "idle"
    /\ \E length \in 1 .. MaxLineLength :
           /\ buffer_size' = length
           /\ max_length' = length
    /\ buffer' = 0
    /\ bytes_read' = 0
    /\ buffer_writes' = <<>>
    /\ got_char' = 0
    /\ getline_pc' = "getchar"
    /\ UNCHANGED received_data
    /\ UNCHANGED <<uart_vars, i2c_vars, gfx_vars, race_vars>>

\* ISR (USART_RX_vect)
RxInterrupt ==
    /\ RxEnabled
    /\ \E byte \in RxChars : received_data' = byte
    /\ got_char' = 1
    /\ UNCHANGED <<getline_pc, max_length, buffer, bytes_read, buffer_size,
                   buffer_writes>>
    /\ UNCHANGED <<uart_vars, i2c_vars, gfx_vars, race_vars>>

\* uart_getchar returns received_data to uart_getline, which stores it, tests
\* its loop condition and either goes round (into the next uart_getchar) or
\* stores the terminating null byte and returns
GetcharReturn ==
    /\ getline_pc = "getchar"
    /\ got_char = 1
    /\ IF received_data # "\r" /\ max_length > 1
       THEN /\ buffer_writes' =
                  Append(buffer_writes,
                         BufferWrite(buffer, received_data, FALSE))
            /\ max_length' = ToUint16(max_length - 1)
            /\ buffer' = buffer + 1
            /\ bytes_read' = ToUint16(bytes_read + 1)
            /\ got_char' = 0
            /\ UNCHANGED getline_pc
       ELSE /\ buffer_writes' =
                  buffer_writes \o
                  << BufferWrite(buffer, received_data, FALSE),
                     BufferWrite(buffer + 1, NUL, TRUE) >>
            /\ getline_pc' = "done"
            /\ UNCHANGED <<max_length, buffer, bytes_read, got_char>>
    /\ UNCHANGED <<received_data, buffer_size>>
    /\ UNCHANGED <<uart_vars, i2c_vars, gfx_vars, race_vars>>

RxInit ==
    /\ received_data = NUL
    /\ got_char = 0
    /\ getline_pc = "idle"
    /\ max_length = 0
    /\ buffer = 0
    /\ bytes_read = 0
    /\ buffer_size = 0
    /\ buffer_writes = <<>>

-----------------------------------------------------------------------------
(* src/library/uart.c : uart_getline and uart_getchar statement by          *)
(* statement, the receive interrupt taken between any two statements.       *)

\* bound of the model: the bytes that arrive during one call
MaxArrivals == 3

\* uart_getline (buffer, max_length) is called: bytes_read = 0
LineCall ==
    /\ getline_pc = "idle"
    /\ \E length \in 1 .. MaxLineLength :
           /\ buffer_size' = length
           /\ max_length' = length
    /\ buffer' = 0
    /\ bytes_read' = 0
    /\ buffer_writes' = <<>>
    /\ getline_pc' = "clear"
    /\ rx_arrived' = <<>>
    /\ UNCHANGED <<received_data, got_char>>
    /\ UNCHANGED <<uart_vars, i2c_vars, gfx_vars, uart_race_vars,
                   i2c_race_vars, blink_vars, other_vars>>

\* uart_getchar: got_char = 0
GetcharClear ==
    /\ getline_pc = "clear"
    /\ got_char' = 0
    /\ getline_pc' = "test"
    /\ UNCHANGED <<received_data, max_length, buffer, bytes_read, buffer_size,
                   buffer_writes>>
    /\ UNCHANGED <<uart_vars, i2c_vars, gfx_vars, race_vars>>

\* while (got_char != 1)
GetcharTest ==
    /\ getline_pc = "test"
    /\ getline_pc' = IF got_char # 1 THEN "sei" ELSE "return"
    /\ UNCHANGED <<received_data, got_char, max_length, buffer, bytes_read,
                   buffer_size, buffer_writes>>
    /\ UNCHANGED <<uart_vars, i2c_vars, gfx_vars, race_vars>>

\* sei (); and sleep_enable ();
GetcharSei ==
    /\ getline_pc = "sei"
    /\ getline_pc' = "sleep"
    /\ UNCHANGED <<received_data, got_char, max_length, buffer, bytes_read,
                   buffer_size, buffer_writes>>
    /\ UNCHANGED <<uart_vars, i2c_vars, gfx_vars, race_vars>>

\* sleep_cpu (): the processor stops until an interrupt is taken
GetcharSleep ==
    /\ getline_pc = "sleep"
    /\ getline_pc' = "asleep"
    /\ UNCHANGED <<received_data, got_char, max_length, buffer, bytes_read,
                   buffer_size, buffer_writes>>
    /\ UNCHANGED <<uart_vars, i2c_vars, gfx_vars, race_vars>>

\* return received_data; uart_getline stores it, tests its loop condition
\* and goes round into the next uart_getchar, or stores the terminating
\* null byte and returns
GetcharStore ==
    /\ getline_pc = "return"
    /\ IF received_data # "\r" /\ max_length > 1
       THEN /\ buffer_writes' =
                  Append(buffer_writes,
                         BufferWrite(buffer, received_data, FALSE))
            /\ max_length' = ToUint16(max_length - 1)
            /\ buffer' = buffer + 1
            /\ bytes_read' = ToUint16(bytes_read + 1)
            /\ getline_pc' = "clear"
       ELSE /\ buffer_writes' =
                  buffer_writes \o
                  << BufferWrite(buffer, received_data, FALSE),
                     BufferWrite(buffer + 1, NUL, TRUE) >>
            /\ getline_pc' = "done"
            /\ UNCHANGED <<max_length, buffer, bytes_read>>
    /\ UNCHANGED <<received_data, got_char, buffer_size>>
    /\ UNCHANGED <<uart_vars, i2c_vars, gfx_vars, race_vars>>

\* ISR (USART_RX_vect) taken between two statements, or waking the sleeping
\* processor, which then goes round to the test
RxRaceInterrupt ==
    /\ RxEnabled
    /\ getline_pc \notin { "idle", "done" }
    /\ Len(rx_arrived) < MaxArrivals
    /\ \E byte \in RxChars :
           /\ received_data' = byte
           /\ rx_arrived' = Append(rx_arrived, byte)
    /\ got_char' = 1
    /\ getline_pc' = IF getline_pc = "asleep" THEN "test" ELSE getline_pc
    /\ UNCHANGED <<max_length, buffer, bytes_read, buffer_size,
                   buffer_writes>>
    /\ UNCHANGED <<uart_vars, i2c_vars, gfx_vars, uart_race_vars,
                   i2c_race_vars, blink_vars, other_vars>>

-----------------------------------------------------------------------------
(* src/library/graphics.c : write_line, write_pixel                        *)

\* bound of the model: rows and columns 0 .. GridMax
GridMax == 5

\* src/lcd-panel-intro/ili9488.c
screen_rows == 480

screen_columns == 320

Grid == [row : 0 .. GridMax, column : 0 .. GridMax]

\* abs () of <stdlib.h> on a 16 bit int
abs(x) == IF x < 0 THEN ToInt16(0 - x) ELSE x

\* the difference of two uint16_t, converted to the int that abs () takes
Difference(a, b) == ToInt16(ToUint16(a - b))

column_interval == ToInt16(abs(Difference(start.column, end.column)))

column_step == IF start.column < end.column THEN 1 ELSE -1

row_interval == ToInt16(-1 * abs(Difference(start.row, end.row)))

row_step == IF start.row < end.row THEN 1 ELSE -1

\* the state of one run of write_line
L == [pc |-> line_pc, cursor |-> cursor, error |-> error, pixels |-> pixels]

write_pixel(l, position) ==
    IF position.column > screen_columns \/ position.row > screen_rows
    THEN l
    ELSE [l EXCEPT !.pixels = Append(@, position)]

\* one round of the loop without the doubling of error
write_line_round_undoubled(l0) ==
    LET l == write_pixel(l0, l0.cursor)
        e2 == l.error
        column_branch == e2 >= row_interval
        l1 == IF column_branch /\ l.cursor.column # end.column
              THEN [l EXCEPT !.error = ToInt16(@ + row_interval),
                             !.cursor.column = ToUint16(@ + column_step)]
              ELSE l
        row_branch == e2 <= column_interval
        l2 == IF row_branch /\ l1.cursor.row # end.row
              THEN [l1 EXCEPT !.error = ToInt16(@ + column_interval),
                              !.cursor.row = ToUint16(@ + row_step)]
              ELSE l1
    IN IF l.cursor.column = end.column /\ l.cursor.row = end.row
       THEN [l EXCEPT !.pc = "done"]
       ELSE IF column_branch /\ l.cursor.column = end.column
       THEN [l EXCEPT !.pc = "done"]
       ELSE IF row_branch /\ l1.cursor.row = end.row
       THEN [l1 EXCEPT !.pc = "done"]
       ELSE l2

\* one round of the for (;;) loop of write_line
write_line_round(l0) ==
    LET l == write_pixel(l0, l0.cursor)
        e2 == ToInt16(l.error * 2)
        column_branch == e2 >= row_interval
        l1 == IF column_branch /\ l.cursor.column # end.column
              THEN [l EXCEPT !.error = ToInt16(@ + row_interval),
                             !.cursor.column = ToUint16(@ + column_step)]
              ELSE l
        row_branch == e2 <= column_interval
        l2 == IF row_branch /\ l1.cursor.row # end.row
              THEN [l1 EXCEPT !.error = ToInt16(@ + column_interval),
                              !.cursor.row = ToUint16(@ + row_step)]
              ELSE l1
    IN IF l.cursor.column = end.column /\ l.cursor.row = end.row
       THEN [l EXCEPT !.pc = "done"]
       ELSE IF column_branch /\ l.cursor.column = end.column
       THEN [l EXCEPT !.pc = "done"]
       ELSE IF row_branch /\ l1.cursor.row = end.row
       THEN [l1 EXCEPT !.pc = "done"]
       ELSE l2

\* write_line is called: its declarations and the two assignments to cursor
WriteLineCall ==
    /\ line_pc = "idle"
    /\ \E from \in Grid, to \in Grid :
           /\ start' = from
           /\ end' = to
           /\ cursor' = from
           /\ error' = ToInt16(
                  abs(Difference(from.column, to.column))
                  + ToInt16(-1 * abs(Difference(from.row, to.row))))
    /\ pixels' = <<>>
    /\ line_pc' = "loop"
    /\ UNCHANGED pixel_calls
    /\ UNCHANGED <<uart_vars, i2c_vars, rx_vars, race_vars>>

WriteLineRound ==
    /\ line_pc = "loop"
    /\ LET l == write_line_round(L) IN
           /\ line_pc' = l.pc
           /\ cursor' = l.cursor
           /\ error' = l.error
           /\ pixels' = l.pixels
    /\ UNCHANGED <<start, end, pixel_calls>>
    /\ UNCHANGED <<uart_vars, i2c_vars, rx_vars, race_vars>>

-----------------------------------------------------------------------------
(* src/library/graphics.c : vertical_line, horizontal_line; the window and  *)
(* the pixel stream of the panel (src/library/lcd.c, ili9488.c).            *)

\* set_display_window: CASET and RASET with the two corners, then RAMWR
set_display_window(lower_left, upper_right) ==
    [ sc |-> lower_left.column, ec |-> upper_right.column,
      sp |-> lower_left.row,    ep |-> upper_right.row ]

\* write_colour: for (i = 0; i < pixel_count; i ++) one pixel is sent; the
\* panel puts the pixels after RAMWR into the window from its first corner
\* on, column by column and then row by row
write_colour(window, pixel_count) ==
    LET width  == window.ec - window.sc + 1
        height == window.ep - window.sp + 1
    IN  [ i \in 1 .. pixel_count |->
            [ row    |-> window.sp + (((i - 1) \div width) % height),
              column |-> window.sc + ((i - 1) % width) ] ]

\* vertical_line (column, start_row, end_row, colour): the pixels coloured
vertical_line(column, start_row, end_row) ==
    LET length == ToInt16(IF end_row >= start_row
                          THEN ToUint16(end_row - start_row)
                          ELSE ToUint16(start_row - end_row))
        line_start == [ row |-> IF start_row <= end_row
                                THEN start_row ELSE end_row,
                        column |-> column ]
        line_end == [ row |-> IF end_row >= start_row
                              THEN end_row ELSE start_row,
                      column |-> column ]
    IN  write_colour(set_display_window(line_start, line_end), length)

\* horizontal_line (row, start_column, end_column, colour)
horizontal_line(row, start_column, end_column) ==
    LET length == ToInt16(IF end_column >= start_column
                          THEN ToUint16(end_column - start_column)
                          ELSE ToUint16(start_column - end_column))
        line_start == [ row |-> row,
                        column |-> IF start_column <= end_column
                                   THEN start_column ELSE end_column ]
        line_end == [ row |-> row,
                      column |-> IF end_column >= start_column
                                 THEN end_column ELSE start_column ]
    IN  write_colour(set_display_window(line_start, line_end), length)

\* one line drawn twice: by vertical_line, and by write_line between the
\* same end points on a clear panel
VerticalLineCall ==
    /\ line_pc = "idle"
    /\ \E column \in 0 .. GridMax, start_row \in 0 .. GridMax,
          end_row \in 0 .. GridMax :
           /\ fast_line' = [function |-> "vertical_line",
                            pixels |-> vertical_line(column, start_row, end_row)]
           /\ start' = [row |-> start_row, column |-> column]
           /\ end' = [row |-> end_row, column |-> column]
           /\ cursor' = [row |-> start_row, column |-> column]
           /\ error' = ToInt16(ToInt16(-1 * abs(Difference(start_row, end_row))))
    /\ pixels' = <<>>
    /\ line_pc' = "loop"
    /\ UNCHANGED <<pixel_calls, circle, ring>>
    /\ UNCHANGED <<uart_vars, i2c_vars, rx_vars, uart_race_vars,
                   i2c_race_vars, blink_vars, rx_race_vars>>

\* the same for horizontal_line
HorizontalLineCall ==
    /\ line_pc = "idle"
    /\ \E row \in 0 .. GridMax, start_column \in 0 .. GridMax,
          end_column \in 0 .. GridMax :
           /\ fast_line' = [function |-> "horizontal_line",
                            pixels |-> horizontal_line(row, start_column, end_column)]
           /\ start' = [row |-> row, column |-> start_column]
           /\ end' = [row |-> row, column |-> end_column]
           /\ cursor' = [row |-> row, column |-> start_column]
           /\ error' = ToInt16(abs(Difference(start_column, end_column)))
    /\ pixels' = <<>>
    /\ line_pc' = "loop"
    /\ UNCHANGED <<pixel_calls, circle, ring>>
    /\ UNCHANGED <<uart_vars, i2c_vars, rx_vars, uart_race_vars,
                   i2c_race_vars, blink_vars, rx_race_vars>>

AxisNext == VerticalLineCall \/ HorizontalLineCall \/ WriteLineRound

-----------------------------------------------------------------------------
(* src/library/graphics.c : draw_circle, circle_helper, circle_pixels.      *)

\* bound of the model: the radii drawn
MaxRadius == 8

\* centres at least MaxRadius from every edge of the panel
Centres ==
    { [row |-> MaxRadius, column |-> MaxRadius],
      [row |-> screen_rows \div 2, column |-> screen_columns \div 2],
      [row |-> screen_rows - 1 - MaxRadius,
       column |-> screen_columns - 1 - MaxRadius] }

\* a circle_pixels whose fourth quadrant mirrors the first
circle_pixels_mirrored(c, column_offset, row_offset) ==
    LET q1 == write_pixel(c,
                  [row |-> ToUint16(c.center.row + row_offset),
                   column |-> ToUint16(c.center.column - column_offset)])
        q2 == write_pixel(q1,
                  [row |-> ToUint16(c.center.row - column_offset),
                   column |-> ToUint16(c.center.column - row_offset)])
        q3 == write_pixel(q2,
                  [row |-> ToUint16(c.center.row - row_offset),
                   column |-> ToUint16(c.center.column + column_offset)])
    IN  write_pixel(q3,
                  [row |-> ToUint16(c.center.row - column_offset),
                   column |-> ToUint16(c.center.column + row_offset)])

\* circle_pixels with quadrants 0x0F and filled false: four write_pixel
\* calls, the coordinates of the cursor being uint16_t
circle_pixels(c, column_offset, row_offset) ==
    LET q1 == write_pixel(c,
                  [row |-> ToUint16(c.center.row + row_offset),
                   column |-> ToUint16(c.center.column - column_offset)])
        q2 == write_pixel(q1,
                  [row |-> ToUint16(c.center.row - column_offset),
                   column |-> ToUint16(c.center.column - row_offset)])
        q3 == write_pixel(q2,
                  [row |-> ToUint16(c.center.row - row_offset),
                   column |-> ToUint16(c.center.column + column_offset)])
    IN  write_pixel(q3,
                  [row |-> ToUint16(c.center.row + column_offset),
                   column |-> ToUint16(c.center.column + row_offset)])

\* one round of the do ... while (column < 0) loop of circle_helper
circle_helper_round(c0) ==
    LET c == circle_pixels(c0, c0.column, c0.row)
        radius == c.error
        c1 == IF radius <= c.row
              THEN [c EXCEPT !.row = ToInt16(@ + 1),
                             !.error = ToInt16(@ + ToInt16(c.row + 1) * 2 + 1)]
              ELSE c
        c2 == IF radius > c1.column \/ c1.error > c1.row
              THEN [c1 EXCEPT
                      !.column = ToInt16(@ + 1),
                      !.error = ToInt16(@ + ToInt16(c1.column + 1) * 2 + 1)]
              ELSE c1
    IN  [c2 EXCEPT !.pc = IF c2.column < 0 THEN "loop" ELSE "done"]

\* draw_circle (center, radius, colour) is called: the declarations of
\* circle_helper
DrawCircleCall ==
    /\ circle.pc \in { "idle", "done" }
    /\ \E center \in Centres, radius \in 0 .. MaxRadius :
           circle' = [pc |-> "loop", center |-> center, r |-> radius,
                      column |-> ToInt16(-1 * radius), row |-> 0,
                      error |-> ToInt16(2 - 2 * radius), pixels |-> <<>>]
    /\ UNCHANGED <<fast_line, ring>>
    /\ UNCHANGED <<uart_vars, i2c_vars, rx_vars, gfx_vars, uart_race_vars,
                   i2c_race_vars, blink_vars, rx_race_vars>>

CircleRound ==
    /\ circle.pc = "loop"
    /\ circle' = circle_helper_round(circle)
    /\ UNCHANGED <<fast_line, ring>>
    /\ UNCHANGED <<uart_vars, i2c_vars, rx_vars, gfx_vars, uart_race_vars,
                   i2c_race_vars, blink_vars, rx_race_vars>>

CircleNext == DrawCircleCall \/ CircleRound

-----------------------------------------------------------------------------
(* src/DigitalReadSerial/uart.c and src/AnalogReadSerial/uart.c : the       *)
(* transmit queue as a ring of BUFFER_LENGTH messages.                      *)

\* bound of the model: calls of transmit_string in a run
MaxRingCalls == 34

RingBuilds == { "DigitalReadSerial", "AnalogReadSerial" }

\* the message every call passes, and the address of its first character
RingMessage == << "c" >>

MessageAddress == 256

\* uart_init: the three integers are zeroed, UDRIE0 is clear
ring_uart_init(build) ==
    [build |-> build, messages |-> [i \in 1 .. BUFFER_LENGTH |-> <<>>],
     data_length |-> 0, head_pos |-> 0, tail_pos |-> 0, udrie |-> FALSE,
     calls |-> 0]

\* messages [index] = message.  Behind the 32 pointers of the array lie
\* data_length, head_pos and tail_pos, each as wide as a pointer: a store
\* past the end is undefined, and either leaves the integers alone or puts
\* the address into the one at that place.
StoreMessage(q, index, message) ==
    IF index \in 0 .. BUFFER_LENGTH - 1
    THEN { [q EXCEPT !.messages[index + 1] = message] }
    ELSE { q,
           IF index = BUFFER_LENGTH
           THEN [q EXCEPT !.data_length = MessageAddress]
           ELSE IF index = BUFFER_LENGTH + 1
           THEN [q EXCEPT !.head_pos = MessageAddress]
           ELSE IF index = BUFFER_LENGTH + 2
           THEN [q EXCEPT !.tail_pos = MessageAddress]
           ELSE q }

\* DigitalReadSerial transmit_string: tail_pos ++ and nothing more
digital_transmit_string(q, message) ==
    IF q.data_length = BUFFER_LENGTH
    THEN { q }
    ELSE { [s EXCEPT !.tail_pos = ToInt16(@ + 1),
                     !.data_length = ToInt16(@ + 1),
                     !.udrie = TRUE] :
           s \in StoreMessage(q, q.tail_pos, message) }

\* AnalogReadSerial transmit_string: tail_pos ++; tail_pos %= BUFFER_LENGTH
analog_transmit_string(q, message) ==
    IF q.data_length = BUFFER_LENGTH
    THEN { q }
    ELSE { [s EXCEPT !.tail_pos = ToInt16(@ + 1) % BUFFER_LENGTH,
                     !.data_length = ToInt16(@ + 1),
                     !.udrie = TRUE] :
           s \in StoreMessage(q, q.tail_pos, message) }

\* *(messages [head_pos]); a read past the end of the array is undefined
HeadMessages(q) ==
    IF q.head_pos \in 0 .. BUFFER_LENGTH - 1
    THEN { q.messages[q.head_pos + 1] }
    ELSE { <<>>, RingMessage }

\* ISR (USART_UDRE_vect) of both builds: the next character of the head
\* message goes to UDR0, or the head moves on, or the interrupt is disabled
ring_USART_UDRE_vect(q) ==
    IF q.data_length > 0
    THEN { IF CharAt(text) # NUL
           THEN IF q.head_pos \in 0 .. BUFFER_LENGTH - 1
                THEN [q EXCEPT !.messages[q.head_pos + 1] = Tail(text)]
                ELSE q
           ELSE [q EXCEPT !.head_pos = ToInt16(@ + 1) % BUFFER_LENGTH,
                          !.data_length = ToInt16(@ - 1)] :
           text \in HeadMessages(q) }
    ELSE { [q EXCEPT !.udrie = FALSE] }

\* uart_init () of one of the two builds
RingUartInit ==
    /\ ring.build = "none"
    /\ \E build \in RingBuilds : ring' = ring_uart_init(build)
    /\ UNCHANGED <<fast_line, circle>>
    /\ UNCHANGED <<uart_vars, i2c_vars, rx_vars, gfx_vars, uart_race_vars,
                   i2c_race_vars, blink_vars, rx_race_vars>>

\* transmit_string (message) of that build
RingTransmitString ==
    /\ ring.build # "none"
    /\ ring.calls < MaxRingCalls
    /\ \E q \in IF ring.build = "DigitalReadSerial"
                THEN digital_transmit_string(ring, RingMessage)
                ELSE analog_transmit_string(ring, RingMessage) :
           ring' = [q EXCEPT !.calls = @ + 1]
    /\ UNCHANGED <<fast_line, circle>>
    /\ UNCHANGED <<uart_vars, i2c_vars, rx_vars, gfx_vars, uart_race_vars,
                   i2c_race_vars, blink_vars, rx_race_vars>>

\* the data register is empty and UDRIE0 is set
RingUdreInterrupt ==
    /\ ring.build # "none"
    /\ ring.udrie
    /\ \E q \in ring_USART_UDRE_vect(ring) : ring' = q
    /\ UNCHANGED <<fast_line, circle>>
    /\ UNCHANGED <<uart_vars, i2c_vars, rx_vars, gfx_vars, uart_race_vars,
                   i2c_race_vars, blink_vars, rx_race_vars>>

RingNext == RingUartInit \/ RingTransmitString \/ RingUdreInterrupt

\* bound of the model: calls of write_pixel in a run
MaxPixelCalls == 2

\* uint16_t coordinates at and around the edges of the panel
EdgeRows == { 0, screen_rows - 1, screen_rows, screen_rows + 1, 65535 }

EdgeColumns ==
    { 0, screen_columns - 1, screen_columns, screen_columns + 1, 65535 }

\* write_pixel called on its own, no line being drawn
WritePixelCall ==
    /\ line_pc = "idle"
    /\ Len(pixel_calls) < MaxPixelCalls
    /\ \E r \in EdgeRows, c \in EdgeColumns :
           LET position == [row |-> r, column |-> c] IN
           /\ pixels' = write_pixel(L, position).pixels
           /\ pixel_calls' = Append(pixel_calls, position)
    /\ UNCHANGED <<line_pc, start, end, cursor, error>>
    /\ UNCHANGED <<uart_vars, i2c_vars, rx_vars, race_vars>>

GfxInit ==
    /\ line_pc = "idle"
    /\ start = [row |-> 0, column |-> 0]
    /\ end = [row |-> 0, column |-> 0]
    /\ cursor = [row |-> 0, column |-> 0]
    /\ error = 0
    /\ pixels = <<>>
    /\ pixel_calls = <<>>

-----------------------------------------------------------------------------
(* Specifications                                                          *)

UartNext == TransmitString \/ TransmitInt \/ UdreInterrupt

DecNext == TransmitDecimal \/ UdreInterrupt

HexNext == TransmitHexadecimal \/ UdreInterrupt

PoolNext == PoolTransmitString \/ PoolTransmitInt

PrintfNext == UartPrintf \/ UdreInterrupt

PixelNext == WritePixelCall

UartRaceNext ==
    \/ CallTransmitString
    \/ AllocateRead
    \/ AllocateTest
    \/ AllocateUnlink
    \/ FillItem
    \/ EnqueueClearNext
    \/ EnqueueTest
    \/ EnqueueHead
    \/ EnqueueFirstTail
    \/ EnqueueUdrie
    \/ EnqueueLink
    \/ EnqueueTail
    \/ EnableAndReturn
    \/ RaceUdreInterrupt

\* ISR (TWI_vect) runs whole, wherever the call is
I2cRaceNext ==
    \/ CallSendTo
    \/ SendToAllocate
    \/ SendToFill
    \/ TwiEnqueueTest
    \/ TwiEnqueueHead
    \/ TwiEnqueueFirstTail
    \/ TwiEnqueueStart
    \/ TwiEnqueueLink
    \/ TwiEnqueueTail
    \/ HwInterrupt

I2cNext ==
    \/ FillPool
    \/ SendTo
    \/ ReceiveFrom
    \/ ReceiveReturn
    \/ ReadRegisterCall
    \/ ReadRegisterReceive
    \/ ReadRegisterReturn
    \/ HwInterrupt
    \/ BlinkSendTo
    \/ BlinkInterrupt

\* The calls and handlers of both drivers as whole steps.  The two drivers
\* share no state (the TWI handler reaches the UART only through its error
\* report, which no status of an undisturbed bus selects), so what one does
\* does not depend on where the other is: a run exercises one of them, the
\* UART of Next or the i2c-digital-read driver.
QueuesNext ==
    \/ (i2c_log = <<>> /\ UartNext)
    \/ /\ tx_log = <<>>
       /\ \/ FillPool
          \/ SendTo
          \/ ReceiveFrom
          \/ ReceiveReturn
          \/ ReadRegisterCall
          \/ ReadRegisterReceive
          \/ ReadRegisterReturn
          \/ HwInterrupt

\* The two programs with their handlers as whole steps: i2c-digital-read
\* with the TWI handler entered by every status the hardware can raise, and
\* i2c-blink with its timer handler.
IsrNext ==
    \/ SendTo
    \/ ReceiveFrom
    \/ ReceiveReturn
    \/ HwInterrupt
    \/ UnrecognisedInterrupt
    \/ BlinkMain
    \/ BlinkInterrupt
    \/ BlinkUnrecognisedInterrupt
    \/ TIMER1_OVF_vect

LiveNext == TransmitEdgeString \/ TransmitEdgeInt \/ UdreInterrupt

ReadNext == SendTo \/ ReceiveBytes \/ ReceiveReturn \/ HwInterrupt

LengthNext == SendLength \/ HwInterrupt

ReceiveWaitNext ==
    \/ ReceiveLoopCall
    \/ WaitTest
    \/ WaitSei
    \/ WaitSleep
    \/ WaitTwiInterrupt

GetcharNext ==
    \/ LineCall
    \/ GetcharClear
    \/ GetcharTest
    \/ GetcharSei
    \/ GetcharSleep
    \/ GetcharStore
    \/ RxRaceInterrupt

GetlineNext == GetlineCall \/ RxInterrupt \/ GetcharReturn

LineNext == WriteLineCall \/ WriteLineRound

\* main () of i2c-digital-read: i2c_init (); uart_init (9600);
Init ==
    /\ UartInit
    /\ I2cInit
    /\ driver = "i2c-digital-read"
    /\ RxInit
    /\ GfxInit
    /\ UartRaceInit
    /\ I2cRaceInit
    /\ LedInit
    /\ RxRaceInit
    /\ AxisInit
    /\ CircleInit
    /\ RingInit

\* either build of the I2C driver
I2cDriverInit ==
    /\ UartInit
    /\ I2cInit
    /\ driver \in { "i2c-digital-read", "i2c-blink" }
    /\ RxInit
    /\ GfxInit
    /\ UartRaceInit
    /\ I2cRaceInit
    /\ LedInit
    /\ RxRaceInit
    /\ AxisInit
    /\ CircleInit
    /\ RingInit

Next == UartNext

Spec == Init /\ [][Next]_vars

SpecDec == Init /\ [][DecNext]_vars

SpecHex == Init /\ [][HexNext]_vars

SpecPool == Init /\ [][PoolNext]_vars

SpecIsr == I2cDriverInit /\ [][IsrNext]_vars

\* The hardware raises the UDRE interrupt for as long as UDRIE0 is set and
\* the data register is empty: an enabled handler is eventually run.
SpecLive == Init /\ [][LiveNext]_vars /\ WF_vars(UdreInterrupt)

SpecRead == Init /\ [][ReadNext]_vars

SpecLength == Init /\ [][LengthNext]_vars

\* The processor executes its next statement unless it is asleep, and the
\* bus hardware ends the operation it is doing and raises its interrupt.
SpecReceiveWait ==
    /\ Init
    /\ [][ReceiveWaitNext]_vars
    /\ WF_vars(WaitTest)
    /\ WF_vars(WaitSei)
    /\ WF_vars(WaitSleep)
    /\ WF_vars(WaitTwiInterrupt)

\* The processor executes its next statement unless it is asleep; whether
\* and when a byte arrives is up to the sender.
SpecGetchar ==
    /\ Init
    /\ [][GetcharNext]_vars
    /\ WF_vars(GetcharClear)
    /\ WF_vars(GetcharTest)
    /\ WF_vars(GetcharSei)
    /\ WF_vars(GetcharSleep)
    /\ WF_vars(GetcharStore)

SpecAxis == Init /\ [][AxisNext]_vars

\* the processor goes on executing the loop
SpecCircle == Init /\ [][CircleNext]_vars /\ WF_vars(CircleRound)

SpecRing == Init /\ [][RingNext]_vars

SpecPrintf == Init /\ [][PrintfNext]_vars

SpecUartRace == Init /\ [][UartRaceNext]_vars

SpecI2cRace == Init /\ [][I2cRaceNext]_vars

SpecQueues == Init /\ [][QueuesNext]_vars

SpecI2C == I2cDriverInit /\ [][I2cNext]_vars

SpecGetline == Init /\ [][GetlineNext]_vars

SpecPixel == Init /\ [][PixelNext]_vars

\* a call of write_line that has started keeps running
SpecLine == Init /\ [][LineNext]_vars /\ WF_vars(WriteLineRound)

-----------------------------------------------------------------------------
(* Helpers of the properties                                               *)

IsPrefix(a, b) == Len(a) <= Len(b) /\ a = SubSeq(b, 1, Len(a))

\* the slots reachable from `from` along next, in order
RECURSIVE ListFrom(_, _, _)
ListFrom(queue, from, fuel) ==
    IF from = NULL \/ fuel = 0 THEN <<>>
    ELSE <<from>> \o ListFrom(queue, queue[from].next, fuel - 1)

QueueSlots == ListFrom(transmit_queue, head, BUFFER_LENGTH + 1)

FreeSlots == ListFrom(transmit_queue, free_list, BUFFER_LENGTH + 1)

QueueLength == Len(QueueSlots)

\* the texts of all logged calls, concatenated in call order
RECURSIVE SubmittedText(_)
SubmittedText(log) ==
    IF log = <<>> THEN <<>>
    ELSE SubmittedText(SubSeq(log, 1, Len(log) - 1)) \o log[Len(log)].text

StringCallsOnly == \A i \in 1 .. Len(tx_log) : tx_log[i].op = "string"

HasPercent(text) == \E i \in 1 .. Len(text) : text[i] = "%"

NoPercentSubmitted == \A i \in 1 .. Len(tx_log) : ~HasPercent(tx_log[i].text)

\* canonical decimal numeral of an integer
RECURSIVE DecimalDigits(_)
DecimalDigits(n) ==
    IF n < 10 THEN <<digit_map[n + 1]>>
    ELSE DecimalDigits(n \div 10) \o <<digit_map[(n % 10) + 1]>>

CanonicalDecimal(v) ==
    IF v < 0 THEN <<"-">> \o DecimalDigits(-v) ELSE DecimalDigits(v)

\* "0x" and the four nibbles of a 16 bit pattern, most significant first
FourHexDigits(v) ==
    << "0", "x",
       digit_map[((v \div 4096) % 16) + 1],
       digit_map[((v \div 256) % 16) + 1],
       digit_map[((v \div 16) % 16) + 1],
       digit_map[(v % 16) + 1] >>

-----------------------------------------------------------------------------
(* Properties                                                              *)

C2_CanonicalDecimal ==
    tx_log # <<>> =>
        /\ ~halted
        /\ IsPrefix(UDR0, CanonicalDecimal(tx_log[1].number))
        /\ (head = NULL => UDR0 = CanonicalDecimal(tx_log[1].number))

\* C3: for every v in 0 .. 65535, transmit_int (v, HEX) makes the handler
\* emit "0x" and the four uppercase hexadecimal digits of v, most significant
\* first, and nothing else.
C3_FourHexDigits ==
    tx_log # <<>> =>
        /\ IsPrefix(UDR0, FourHexDigits(tx_log[1].number))
        /\ (head = NULL => UDR0 = FourHexDigits(tx_log[1].number))

C3_Witness ==
    /\ tx_log # <<>>
    /\ tx_log[1].number = 43981
    /\ head = NULL
    /\ UDR0 = <<"0", "x", "A", "B", "C", "D">>

\* C4: with the handler not running the queue never holds more than 32
\* requests, a call made with 32 requests queued returns 0, and a call that
\* returns 0 leaves the queue, the free list and every slot unchanged.
C4_RejectedCallChangesNothing ==
    /\ [](QueueLength <= BUFFER_LENGTH)
    /\ [][ (Len(tx_log') = Len(tx_log) + 1) =>
             /\ (QueueLength = BUFFER_LENGTH => tx_log'[Len(tx_log')].ret = 0)
             /\ (tx_log'[Len(tx_log')].ret = 0 =>
                    UNCHANGED <<transmit_queue, head, tail, free_list>>) ]_vars

-----------------------------------------------------------------------------
(* I2C: helpers of the properties                                          *)

\* What the writes to the TWI registers put on the bus: a control write with
\* TWSTO is a STOP (followed by a START if TWSTA is set with it), one with
\* TWSTA a START, one that follows a write of TWDR sends that byte, any
\* other one that clears TWINT receives a byte.
Frame(kind, value) == [kind |-> kind, value |-> value]

START == Frame("START", 0)

STOP == Frame("STOP", 0)

RECURSIVE BusFrames(_)
BusFrames(log) ==
    IF log = <<>> THEN <<>>
    ELSE LET n == Len(log)
             w == log[n]
             before == BusFrames(SubSeq(log, 1, n - 1))
         IN IF w.reg = "TWDR" \/ ~HasBit(w.val, TWINT) THEN before
            ELSE IF HasBit(w.val, TWSTO)
            THEN before \o <<STOP>> \o
                 (IF HasBit(w.val, TWSTA) THEN <<START>> ELSE <<>>)
            ELSE IF HasBit(w.val, TWSTA) THEN before \o <<START>>
            ELSE IF n > 1 /\ log[n - 1].reg = "TWDR"
            THEN before \o <<Frame("BYTE", log[n - 1].val)>>
            ELSE before \o <<Frame("READ", 0)>>

\* START-sent, address-ACK and n times data-ACK
AllAcknowledged(n) == <<8, 24>> \o [i \in 1 .. n |-> 40]

\* the frames of one write transaction
WriteFrames(call) ==
    <<START, Frame("BYTE", (call.device_address * 2) % 256)>>
    \o [i \in 1 .. call.length |-> Frame("BYTE", call.data[i])]
    \o <<STOP>>

\* the ids of the accepted calls among the first n, in call order
RECURSIVE AcceptedIds(_)
AcceptedIds(n) ==
    IF n = 0 THEN <<>>
    ELSE AcceptedIds(n - 1) \o (IF i2c_log[n].accepted THEN <<n>> ELSE <<>>)

\* the ids of the queued transactions, from the head
QueueIds ==
    LET slots == ListFrom(i2c_buffer, queue_head, BUFFER_LENGTH + 1)
    IN [i \in 1 .. Len(slots) |-> i2c_buffer[slots[i]].id]

NonDecreasing(ids) ==
    \A i \in 1 .. Len(ids), j \in 1 .. Len(ids) : i <= j => ids[i] <= ids[j]

DataRegisterWrites == SelectSeq(twi_bus, LAMBDA w : w.reg = "TWDR")

\* the address byte of call number id
AddressByte(id) ==
    (i2c_log[id].device_address * 2
     + (IF i2c_log[id].op = "receive" THEN 1 ELSE 0)) % 256

-----------------------------------------------------------------------------
(* I2C: properties                                                         *)

\* C5: after a single i2c_send_to of n >= 1 bytes on an idle driver, while
\* the hardware reports START sent, address acknowledged and then data
\* acknowledged, the register writes put on the bus, frame by frame, START,
\* the address byte (addr << 1) | 0, the n bytes in buffer order and STOP;
\* after the n-th data acknowledge the transaction is dequeued and the queue
\* is empty.
C5_WriteFraming ==
    (/\ Len(i2c_log) = 1
     /\ i2c_log[1].op = "send"
     /\ i2c_log[1].length >= 1
     /\ IsPrefix(twsr_log, AllAcknowledged(i2c_log[1].length)))
    => /\ BusFrames(twi_bus) =
              SubSeq(WriteFrames(i2c_log[1]), 1, Len(twsr_log) + 1)
       /\ twsr_log = AllAcknowledged(i2c_log[1].length)
              => /\ queue_head = NULL
                 /\ queue_tail = NULL
                 /\ i2c_done = <<1>>

C5_Witness ==
    /\ driver = "i2c-digital-read"
    /\ Len(i2c_log) = 1
    /\ i2c_log[1].op = "send"
    /\ i2c_log[1].device_address = 32
    /\ i2c_log[1].data = <<0, 254>>
    /\ twsr_log = <<8, 24, 40, 40>>
    /\ BusFrames(twi_bus) =
           <<START, Frame("BYTE", 64), Frame("BYTE", 0), Frame("BYTE", 254),
             STOP>>
    /\ queue_head = NULL

\* C6: a control-register write has the STOP bit set only when the queue has
\* drained: no write made while a transaction is at the head of the queue
\* sets TWSTO.
C6_NoStopWhilePending ==
    \A i \in 1 .. Len(twi_bus) :
        (twi_bus[i].reg = "TWCR" /\ HasBit(twi_bus[i].val, TWSTO))
        => twi_bus[i].txn = 0

\* C9: the transactions dequeued so far followed by those still queued are
\* the accepted calls in call order; the bytes loaded into the data register
\* and the bytes stored for the callers belong to transactions in that order,
\* each byte to the transaction that was at the head of the queue, and the
\* first byte loaded for a transaction is its address byte.
C9_FifoOrder ==
    /\ i2c_done \o QueueIds = AcceptedIds(Len(i2c_log))
    /\ NonDecreasing([i \in 1 .. Len(DataRegisterWrites) |->
                         DataRegisterWrites[i].txn])
    /\ NonDecreasing([i \in 1 .. Len(rx_writes) |-> rx_writes[i].id])
    /\ \A i \in 1 .. Len(DataRegisterWrites) :
           LET w == DataRegisterWrites[i] IN
           /\ w.txn \in 1 .. Len(i2c_log)
           /\ i2c_log[w.txn].accepted
           /\ \A k \in 1 .. w.txn - 1 :
                  i2c_log[k].accepted =>
                      \E d \in 1 .. Len(i2c_done) : i2c_done[d] = k
           /\ (i = 1 \/ DataRegisterWrites[i - 1].txn # w.txn)
                  => w.val = AddressByte(w.txn)

C9_Witness ==
    /\ driver = "i2c-digital-read"
    /\ i2c_done = <<1, 2>>
    /\ i2c_log[1].device_address # i2c_log[2].device_address
    /\ \E i \in 1 .. Len(twi_bus) :
           /\ twi_bus[i].reg = "TWCR"
           /\ HasBit(twi_bus[i].val, TWSTA)
           /\ HasBit(twi_bus[i].val, TWSTO)
           /\ twi_bus[i].txn = 2
    /\ \E i \in 1 .. Len(DataRegisterWrites) :
           /\ DataRegisterWrites[i].txn = 2
           /\ DataRegisterWrites[i].val = AddressByte(2)

-----------------------------------------------------------------------------
(* uart_getline: properties                                                *)

BytesStored == SelectSeq(buffer_writes, LAMBDA w : ~w.terminator)

\* C7: uart_getline stores at most max_length - 1 received bytes, stores
\* nothing after a carriage return, returns only after a carriage return or
\* max_length - 1 bytes, and every store it makes, the terminating null byte
\* included, is at an index below max_length.
C7_StopsInsideBuffer ==
    /\ \A i \in 1 .. Len(buffer_writes) : buffer_writes[i].index < buffer_size
    /\ getline_pc # "idle" => Len(BytesStored) <= buffer_size - 1
    /\ \A i \in 1 .. Len(BytesStored) - 1 : BytesStored[i].value # "\r"
    /\ getline_pc = "done"
           => \/ Len(BytesStored) = buffer_size - 1
              \/ BytesStored[Len(BytesStored)].value = "\r"

-----------------------------------------------------------------------------
(* write_line: properties                                                  *)

Distance(a, b) == IF a < b THEN b - a ELSE a - b

Max(a, b) == IF a < b THEN b ELSE a

\* max(|dcolumn|, |drow|) + 1
LinePixels ==
    Max(Distance(start.column, end.column), Distance(start.row, end.row)) + 1

Adjacent(p, q) ==
    /\ p # q
    /\ Distance(p.row, q.row) <= 1
    /\ Distance(p.column, q.column) <= 1

\* C8: a started write_line never plots more than max(|dcolumn|, |drow|) + 1
\* pixels, the first is start, no pixel is plotted twice, successive pixels
\* are adjacent; when it has ended it has plotted exactly that many pixels
\* and the last is end; and once started it does end.  (0,0)->(5,5) plots
\* the 6 points of the diagonal and (0,0)->(5,0) the 6 points of row 0.
C8_LineIsPlottedOnce ==
    /\ [](line_pc # "idle" =>
            /\ Len(pixels) <= LinePixels
            /\ pixels # <<>> => pixels[1] = start
            /\ \A i \in 1 .. Len(pixels), j \in 1 .. Len(pixels) :
                   i # j => pixels[i] # pixels[j]
            /\ \A i \in 1 .. Len(pixels) - 1 :
                   Adjacent(pixels[i], pixels[i + 1])
            /\ line_pc = "done" =>
                   /\ Len(pixels) = LinePixels
                   /\ pixels[Len(pixels)] = end
                   /\ (start = [row |-> 0, column |-> 0]
                       /\ end = [row |-> 5, column |-> 5])
                          => pixels = [i \in 1 .. 6 |->
                                          [row |-> i - 1, column |-> i - 1]]
                   /\ (start = [row |-> 0, column |-> 0]
                       /\ end = [row |-> 0, column |-> 5])
                          => pixels = [i \in 1 .. 6 |->
                                          [row |-> 0, column |-> i - 1]])
    /\ (line_pc = "loop") ~> (line_pc = "done")

C8_Witness ==
    /\ line_pc = "done"
    /\ start = [row |-> 0, column |-> 0]
    /\ end = [row |-> 2, column |-> 5]
    /\ pixels = << [row |-> 0, column |-> 0], [row |-> 0, column |-> 1],
                   [row |-> 1, column |-> 2], [row |-> 1, column |-> 3],
                   [row |-> 2, column |-> 4], [row |-> 2, column |-> 5] >>

-----------------------------------------------------------------------------
(* i2c_read_register: properties                                           *)

\* the control-register writes that start the reception of a byte
ReceptionWrites ==
    SelectSeq([i \in 1 .. Len(twi_bus) |->
                  [w |-> twi_bus[i],
                   after_data |-> i > 1 /\ twi_bus[i - 1].reg = "TWDR"]],
              LAMBDA e : /\ e.w.reg = "TWCR"
                         /\ HasBit(e.w.val, TWINT)
                         /\ ~HasBit(e.w.val, TWSTA)
                         /\ ~HasBit(e.w.val, TWSTO)
                         /\ ~e.after_data)

\* the frames of a register read: the write of the register number, a
\* restart, the read of one byte, STOP
ReadRegisterFrames(call) ==
    << START,
       Frame("BYTE", (call.device_address * 2) % 256),
       Frame("BYTE", call.device_register),
       START,
       Frame("BYTE", (call.device_address * 2 + 1) % 256),
       Frame("READ", 0),
       STOP >>

\* the read was queued while the write was in progress: its START was not
\* written by its own enqueue
QueuedBehindWrite ==
    \A i \in 1 .. Len(twi_bus) :
        ~(/\ twi_bus[i].reg = "TWCR"
          /\ twi_bus[i].txn = 2
          /\ HasBit(twi_bus[i].val, TWSTA)
          /\ ~HasBit(twi_bus[i].val, TWSTO))

NoNackReported == \A i \in 1 .. Len(twsr_log) : twsr_log[i] \notin {32, 48, 72}

\* C11: i2c_read_register on an idle driver, the device acknowledging and
\* the read queued while the write is in progress, puts
\* on the bus START, (addr << 1) | 0, the register number, a restart with no
\* STOP before it, (addr << 1) | 1, the reception of one byte answered with
\* NACK, and STOP; it returns the byte received.
C11_ReadRegisterFraming ==
    (/\ Len(register_reads) = 1
     /\ register_reads[1].idle
     /\ Len(i2c_log) = 2
     /\ QueuedBehindWrite
     /\ NoNackReported)
    => /\ IsPrefix(BusFrames(twi_bus), ReadRegisterFrames(register_reads[1]))
       /\ \A i \in 1 .. Len(ReceptionWrites) :
              ~HasBit(ReceptionWrites[i].w.val, TWEA)
       /\ register_reads[1].ret # PENDING
              => /\ BusFrames(twi_bus) =
                        ReadRegisterFrames(register_reads[1])
                 /\ Len(rx_writes) = 1
                 /\ register_reads[1].ret = rx_writes[1].val

\* what does hold of i2c_read_register: the register number is written, one
\* byte is read and answered with NACK, and that byte is returned
ReadRegisterReturnsByte ==
    (/\ Len(register_reads) = 1
     /\ register_reads[1].idle
     /\ Len(i2c_log) <= 2
     /\ NoNackReported
     /\ register_reads[1].ret # PENDING)
    => /\ SelectSeq(BusFrames(twi_bus), LAMBDA f : f.kind \in {"BYTE", "READ"})
              = SelectSeq(ReadRegisterFrames(register_reads[1]),
                          LAMBDA f : f.kind \in {"BYTE", "READ"})
       /\ \A i \in 1 .. Len(ReceptionWrites) :
              ~HasBit(ReceptionWrites[i].w.val, TWEA)
       /\ Len(rx_writes) = 1
       /\ register_reads[1].ret = rx_writes[1].val

-----------------------------------------------------------------------------
(* uart_printf                                                             *)

\* the format with every specifier replaced by the rendering of its argument
RECURSIVE Rendering(_, _)
Rendering(format, args) ==
    IF format = <<>> THEN <<>>
    ELSE IF format[1] # "%" \/ Len(format) < 2
    THEN <<format[1]>> \o Rendering(Tail(format), args)
    ELSE LET rest == Tail(Tail(format)) IN
         CASE format[2] = "%" -> <<"%">> \o Rendering(rest, args)
           [] format[2] = "d" ->
                CanonicalDecimal(args[1].number) \o Rendering(rest, Tail(args))
           [] format[2] = "x" ->
                FourHexDigits(args[1].number) \o Rendering(rest, Tail(args))
           [] format[2] = "s" ->
                args[1].text \o Rendering(rest, Tail(args))
           [] OTHER -> Rendering(rest, args)

PrintfCalled == tx_log # <<>> /\ tx_log[1].op = "printf"

\* C12: for every format made of plain characters, %d, %x, %s and %%,
\* adjacent specifiers included, the bytes transmitted for uart_printf are
\* the format with every specifier replaced by the rendering of its argument
\* (a prefix of it while the queue drains, all of it once it has drained).
C12_PrintfRendersFormat ==
    PrintfCalled =>
        /\ IsPrefix(UDR0, Rendering(tx_log[1].text, tx_log[1].args))
        /\ (head = NULL =>
                UDR0 = Rendering(tx_log[1].text, tx_log[1].args))

\* a specifier is followed by a plain character
RECURSIVE SpecifiersSeparated(_)
SpecifiersSeparated(format) ==
    IF Len(format) < 2 THEN format = <<>> \/ format[1] # "%"
    ELSE IF format[1] # "%" THEN SpecifiersSeparated(Tail(format))
    ELSE IF format[2] = "%" THEN SpecifiersSeparated(Tail(Tail(format)))
    ELSE /\ Len(format) >= 3
         /\ format[3] # "%"
         /\ SpecifiersSeparated(Tail(Tail(format)))

\* the part of C12 the code keeps: formats whose every %d, %x and %s is
\* followed by a plain character are rendered as stated
PrintfRendersSeparatedSpecifiers ==
    (PrintfCalled /\ SpecifiersSeparated(tx_log[1].text)) =>
        /\ IsPrefix(UDR0, Rendering(tx_log[1].text, tx_log[1].args))
        /\ (head = NULL =>
                UDR0 = Rendering(tx_log[1].text, tx_log[1].args))

-----------------------------------------------------------------------------
(* i2c_send_to with no free slot                                           *)

AllSlotsInUse == \A i \in Slots : i2c_buffer[i].i2c_mode # 0

\* this step is a call of i2c_send_to
SendToStep ==
    /\ Len(i2c_log') = Len(i2c_log) + 1
    /\ i2c_log'[Len(i2c_log')].op = "send"

\* C13: a call of i2c_send_to made while all 32 slots are in use changes
\* neither queue_head nor queue_tail nor any slot nor TWCR, writes no
\* register and reports nothing on the UART.
C13_FullPoolSendChangesNothing ==
    [][(AllSlotsInUse /\ SendToStep) =>
          /\ UNCHANGED <<i2c_buffer, queue_head, queue_tail, TWCR>>
          /\ UNCHANGED <<TWDR, twi_bus, twi_hw>>
          /\ UNCHANGED uart_vars]_vars

C13_Witness ==
    /\ AllSlotsInUse
    /\ Len(i2c_log) = BUFFER_LENGTH + 1
    /\ i2c_log[BUFFER_LENGTH + 1].op = "send"
    /\ ~i2c_log[BUFFER_LENGTH + 1].accepted
    /\ Len(QueueIds) = BUFFER_LENGTH

-----------------------------------------------------------------------------
(* write_pixel                                                             *)

\* the extent lcd_fill_colour addresses: 0 .. screen_rows - 1 by
\* 0 .. screen_columns - 1
InsidePanel(position) ==
    position.row < screen_rows /\ position.column < screen_columns

\* the positions write_pixel was called with that lie inside the panel
InsideCalls == SelectSeq(pixel_calls, InsidePanel)

\* C14: write_pixel emits a window and a colour exactly for the positions
\* with row < screen_rows and column < screen_columns; a position beyond
\* that extent is dropped.
C14_EmitsOnlyInsidePanel ==
    pixel_calls # <<>> => pixels = InsideCalls

\* what the comparison in write_pixel does drop
PastEdge(position) ==
    position.row <= screen_rows /\ position.column <= screen_columns

WritePixelDropsPastEdge ==
    pixel_calls # <<>> => pixels = SelectSeq(pixel_calls, PastEdge)

-----------------------------------------------------------------------------
(* transactions the device does not acknowledge                            *)

\* the statuses that report an ACK from the device
AckStatuses == { 24, 40, 64 }

NoAckReceived == \A i \in 1 .. Len(twsr_log) : twsr_log[i] \notin AckStatuses

\* C15 as stated: while no ACK has been received, no transaction is ever
\* completed or removed from the head of the queue.
C15_UnacknowledgedStalls == NoAckReceived => i2c_done = <<>>

\* the last status reported is the NACK of a read's address byte
AddressReadNacked == twsr_log # <<>> /\ twsr_log[Len(twsr_log)] = 72

\* a write whose every byte is answered with NACK is completed and removed
NackedWriteCompletes ==
    (/\ Len(i2c_log) = 1
     /\ i2c_log[1].op = "send"
     /\ twsr_log = <<8, 32>> \o [i \in 1 .. i2c_log[1].length |-> 48])
    => i2c_done = <<1>> /\ queue_head = NULL

\* what a step does once a read's address byte has been answered with NACK
NackedReadStallsStep ==
    AddressReadNacked =>
        /\ UNCHANGED <<queue_head, i2c_done, twi_bus, rx_writes, TWCR, TWDR>>
        /\ queue_head # NULL
        /\ i2c_buffer'[queue_head].i2c_mode = MASTER_RECEIVER_MODE
        /\ i2c_buffer'[queue_head].length = i2c_buffer[queue_head].length
        /\ i2c_buffer'[queue_head].data = i2c_buffer[queue_head].data
        /\ AddressReadNacked'

\* C15 amended: once the address byte of a read is answered with NACK, the
\* read stays at the head of the queue for ever: no step completes, retries
\* or removes it, writes a TWI register or stores a byte for a caller, and
\* the status reported stays the same.  A write that is never acknowledged
\* does not stall: its NACKs are handled like ACKs, and it is completed and
\* removed once its last byte has been sent.
C15_NackedReadStalls ==
    [][NackedReadStallsStep /\ NackedWriteCompletes']_vars

C15_Witness ==
    /\ Len(twsr_log) >= 4
    /\ \A i \in Len(twsr_log) - 2 .. Len(twsr_log) : twsr_log[i] = 72
    /\ queue_head # NULL
    /\ i2c_pc = "receive_wait"
    /\ i2c_done = <<>>
    /\ i2c_returns = <<>>

-----------------------------------------------------------------------------
(* START and REPEAT-START                                                  *)

\* this step is a call of i2c_send_to that found a free slot
AcceptedSendStep ==
    /\ SendToStep
    /\ i2c_log'[Len(i2c_log')].accepted

\* the control-register writes with the START bit made for transaction id
StartWrites(id) ==
    SelectSeq(twi_bus, LAMBDA w : w.reg = "TWCR" /\ HasBit(w.val, TWSTA)
                                  /\ w.txn = id)

\* the transactions for which the START bit was written, in order of writing
StartedIds ==
    LET starts == SelectSeq(twi_bus, LAMBDA w : w.reg = "TWCR"
                                                /\ HasBit(w.val, TWSTA))
    IN [i \in 1 .. Len(starts) |-> starts[i].txn]

\* the transactions that have reached the head of the queue, in order
ReachedHead ==
    i2c_done \o (IF queue_head = NULL THEN <<>>
                 ELSE <<i2c_buffer[queue_head].id>>)

ExactlyOneStart == StartedIds = ReachedHead

SendStartsOnlyOnEmptyQueue ==
    AcceptedSendStep =>
        IF queue_head = NULL
        THEN /\ Len(twi_bus') = Len(twi_bus) + 1
             /\ twi_bus'[Len(twi_bus')].reg = "TWCR"
             /\ HasBit(twi_bus'[Len(twi_bus')].val, TWSTA)
             /\ HasBit(TWCR', TWSTA)
             /\ queue_head' # NULL
             /\ queue_tail' = queue_head'
        ELSE /\ UNCHANGED <<TWCR, twi_bus, queue_head>>
             /\ queue_tail' # queue_tail
             /\ i2c_buffer'[queue_tail].next = queue_tail'
             /\ i2c_buffer'[queue_tail'].next = NULL

\* C16: an accepted i2c_send_to writes the START bit into TWCR iff the queue
\* was empty when it was called; otherwise it only links the new slot at the
\* tail and leaves TWCR alone; and every accepted transaction has one
\* control-register write with the START bit once it has reached the head of
\* the queue, none before, never a second.
C16_OneStartPerTransaction ==
    [][SendStartsOnlyOnEmptyQueue /\ ExactlyOneStart']_vars

C16_Witness ==
    /\ Len(i2c_log) = 2
    /\ i2c_log[1].op = "send" /\ i2c_log[2].op = "send"
    /\ i2c_done = <<1, 2>>
    /\ Len(StartWrites(1)) = 1
    /\ Len(StartWrites(2)) = 1
    /\ twi_bus[1] = StartWrites(1)[1]
    /\ \E i \in 2 .. Len(twi_bus) :
           /\ twi_bus[i] = StartWrites(2)[1]
           /\ twi_bus[i - 1].txn = 1

-----------------------------------------------------------------------------
(* transmit_string interleaved with the UDRE handler                       *)

Range(seq) == { seq[i] : i \in 1 .. Len(seq) }

\* the slots reachable from `from` along next
SlotsFrom(queue, from) == Range(ListFrom(queue, from, BUFFER_LENGTH + 1))

\* the last thing that happened to a slot: "handed", "enqueued", "released",
\* or "none"
LastEvent(slot) ==
    LET events == SelectSeq(slot_log, LAMBDA e : e.slot = slot)
    IN IF events = <<>> THEN "none" ELSE events[Len(events)].event

\* every request whose enqueue has completed and that the handler has not
\* dequeued is reachable from head
EnqueuedReachable ==
    \A slot \in Slots :
        LastEvent(slot) = "enqueued" => slot \in SlotsFrom(transmit_queue, head)

\* C17: with the UDRE handler free to run between any two statements of
\* transmit_string and enqueue, head is never NULL while tail is not, tail
\* is never dereferenced while it is NULL, and every request accepted into
\* the queue stays reachable from head until the handler dequeues it.
C17_EnqueueSafeUnderInterrupt ==
    /\ ~(head = NULL /\ tail # NULL)
    /\ ~tail_fault
    /\ EnqueuedReachable

\* C18: with the UDRE handler free to release a slot between any two
\* statements of allocate_item, the slot allocate_item returns is not on the
\* free list any more, is not one that is already handed out or queued, and
\* no slot disappears from the free list other than the one returned.
C18_AllocateSafeUnderInterrupt ==
    [][(call_pc = "allocate_unlink" /\ call_pc' = "fill") =>
          /\ call_item \notin SlotsFrom(transmit_queue', free_list')
          /\ call_item \notin SlotsFrom(transmit_queue, head)
          /\ LastEvent(call_item) \in { "none", "released" }
          /\ SlotsFrom(transmit_queue', free_list') \cup { call_item }
                 = SlotsFrom(transmit_queue, free_list)]_vars

\* allocate_item when nothing ran between its read of free_list and its
\* update is safe
AllocateSafeWhenUndisturbed ==
    [][(call_pc = "allocate_unlink" /\ call_pc' = "fill" /\ call_item = free_list) =>
          /\ call_item \notin SlotsFrom(transmit_queue', free_list')
          /\ call_item \notin SlotsFrom(transmit_queue, head)
          /\ SlotsFrom(transmit_queue', free_list') \cup { call_item }
                 = SlotsFrom(transmit_queue, free_list)]_vars

-----------------------------------------------------------------------------
(* i2c_send_to interleaved with the TWI handler                            *)

\* every accepted transaction has been dequeued or is reachable from
\* queue_head, where the handler will give it its START
AcceptedQueuedOrDone ==
    \A id \in 1 .. Len(i2c_log) :
        i2c_log[id].accepted =>
            \/ \E i \in 1 .. Len(i2c_done) : i2c_done[i] = id
            \/ \E i \in 1 .. Len(QueueIds) : QueueIds[i] = id

\* C19: with the TWI handler free to run between any two statements of
\* i2c_send_to and enqueue, queue_head is never NULL while queue_tail is
\* not, queue_tail is never dereferenced while it is NULL, and once the call
\* has returned its transaction is in the queue with a START written for the
\* head of the queue, or already done.
C19_TwiEnqueueSafeUnderInterrupt ==
    /\ ~(queue_head = NULL /\ queue_tail # NULL)
    /\ ~queue_tail_fault
    /\ twi_call_pc = "idle" => (AcceptedQueuedOrDone /\ ExactlyOneStart)

-----------------------------------------------------------------------------
(* Shape of the two queues between operations                              *)

TwiQueueSlots == ListFrom(i2c_buffer, queue_head, BUFFER_LENGTH + 1)

\* the UART queue is empty when every slot of the pool is on the free list
UartQueueEmpty == Len(FreeSlots) = BUFFER_LENGTH

\* the I2C queue is empty when no slot of the pool is in use
TwiQueueEmpty == \A i \in Slots : i2c_buffer[i].i2c_mode = 0

UartQueueShape ==
    /\ (head = NULL) <=> UartQueueEmpty
    /\ (head = NULL) <=> (tail = NULL)
    /\ head # NULL =>
          /\ QueueSlots[Len(QueueSlots)] = tail
          /\ transmit_queue[tail].next = NULL
          /\ Len(QueueSlots) + Len(FreeSlots) = BUFFER_LENGTH

TwiQueueShape ==
    /\ (queue_head = NULL) <=> TwiQueueEmpty
    /\ (queue_head = NULL) <=> (queue_tail = NULL)
    /\ queue_head # NULL =>
          /\ TwiQueueSlots[Len(TwiQueueSlots)] = queue_tail
          /\ i2c_buffer[queue_tail].next = NULL
          /\ Range(TwiQueueSlots) = { i \in Slots : i2c_buffer[i].i2c_mode # 0 }

\* C20: after any sequence of whole operations (init, calls, handler
\* invocations), for the UART queue and for the I2C queue: head is NULL iff
\* the queue is empty iff tail is NULL; when the queue is not empty, tail is
\* the last slot reachable from head and its next link is NULL.
C20_QueueShape == UartQueueShape /\ TwiQueueShape

C20_Witness ==
    /\ Len(QueueSlots) >= 2
    /\ UDR0 # <<>>
    /\ tail = QueueSlots[Len(QueueSlots)]
    /\ tail # head

\* the I2C queue after a dequeue, the second transaction now its only one
TwiQueueShapeReached ==
    /\ i2c_done = <<1>>
    /\ Len(TwiQueueSlots) = 1
    /\ queue_tail = queue_head
    /\ i2c_buffer[queue_head].id = 2

-----------------------------------------------------------------------------
(* The UART pool                                                           *)

\* C21: after any sequence of whole UART operations following uart_init,
\* every one of the 32 slots is on exactly one of the free list and the
\* queue, neither list has a cycle, and the two lengths add up to 32.
C21_PoolConserved ==
    /\ Len(QueueSlots) + Len(FreeSlots) = BUFFER_LENGTH
    /\ Range(QueueSlots) \cup Range(FreeSlots) = Slots
    /\ Range(QueueSlots) \cap Range(FreeSlots) = {}

\* a slot has been released and handed back while another is queued
C21_Witness ==
    /\ Len(QueueSlots) >= 1
    /\ UDR0 # <<>>
    /\ free_list = BUFFER_LENGTH - 1
    /\ transmit_queue[free_list].next # BUFFER_LENGTH - 2
    /\ Len(QueueSlots) + Len(FreeSlots) = BUFFER_LENGTH

\* the I2C slots holding a transaction
TwiSlotsInUse == { i \in Slots : i2c_buffer[i].i2c_mode # 0 }

\* a step that takes a slot out of a pool
SlotClaimed ==
    \/ Len(FreeSlots') < Len(FreeSlots)
    \/ TwiSlotsInUse' \ TwiSlotsInUse # {}

\* a step that gives a slot back to a pool
SlotReleased ==
    \/ Len(FreeSlots') > Len(FreeSlots)
    \/ TwiSlotsInUse \ TwiSlotsInUse' # {}

\* a step of an interrupt handler: the TWI handler, the timer handler or the
\* UDRE handler
HandlerStep ==
    \/ twi_irqs' # twi_irqs
    \/ led_state' # led_state
    \/ (UNCHANGED <<tx_log, i2c_log, i2c_returns>> /\ U' # U)

\* a handler step that finishes the request at the head of a queue
RequestCompleted ==
    \/ head # NULL /\ head' # head
    \/ queue_head # NULL /\ i2c_done' # i2c_done

\* C22: slots are claimed only in the normal context and released only in the
\* interrupt context: no step of an interrupt handler of either driver takes
\* a slot out of a pool, and a slot goes back to its pool only in a handler
\* step that completes a request.
C22_ClaimNormalReleaseHandler ==
    [][/\ SlotClaimed => ~HandlerStep
       /\ SlotReleased => HandlerStep /\ RequestCompleted]_vars

\* the release half alone
C22_ReleaseOnlyInHandler ==
    [][SlotReleased => HandlerStep /\ RequestCompleted]_vars

\* the TWI handler of i2c-digital-read has queued its error report
ErrorReportQueued ==
    /\ tx_log = <<>>
    /\ Len(QueueSlots) >= 3

\* the timer handler of i2c-blink has queued a transaction
TimerSendQueued ==
    /\ led_state = 1
    /\ Cardinality(TwiSlotsInUse) >= 1


\* a step that is one invocation of the UDRE handler
UdreStep == UNCHANGED tx_log /\ U' # U

\* C23: an invocation of the UDRE handler that dequeues the last slot
\* disables the transmit-ready interrupt itself, and so does an invocation
\* that finds the queue already empty: whenever an invocation leaves the
\* queue empty the interrupt is disabled.
C23_EmptyingInvocationDisables ==
    [][UdreStep /\ head' = NULL => ~UdreEnabled']_vars

\* C23, as the handler does it: an invocation that finds a request at the
\* head leaves UCSR0B as it was, also when it dequeues the last slot; an
\* invocation that finds the queue empty clears UDRIE0 and changes nothing
\* else.
C23_NextInvocationDisables ==
    [][UdreStep =>
          IF head # NULL
          THEN UCSR0B' = UCSR0B
          ELSE /\ ~UdreEnabled'
               /\ UNCHANGED <<transmit_queue, head, tail, free_list, UDR0>>]_vars

C23_Witness ==
    /\ head = NULL
    /\ UDR0 # <<>>
    /\ UdreEnabled
    /\ Len(tx_log) >= 2


\* C24: whenever the transmit queue holds a request the UDRE interrupt is
\* enabled, between any two whole operations of the UART driver; this covers
\* requests queued by transmit_int, which does not set the enable bit
\* itself, and requests queued after the handler has emptied the queue.
C24_QueuedImpliesEnabled == head # NULL => UdreEnabled

\* a transmit_int request queued on its own after the handler had drained the
\* queue and disabled the interrupt
C24_Witness ==
    /\ Len(tx_log) = 2
    /\ tx_log[2].op = "int"
    /\ head # NULL
    /\ head = tail
    /\ transmit_queue[head].transmit_function = "integer"
    /\ tx_log[1].op = "string"
    /\ UDR0 # <<>>
    /\ UdreEnabled


\* every slot is back on the free list and the interrupt is off
Drained ==
    /\ head = NULL
    /\ ~UdreEnabled
    /\ Len(FreeSlots) = BUFFER_LENGTH

\* transmit_int was called with -32768 or with 0
EdgeCalled ==
    \E i \in 1 .. Len(tx_log) :
        tx_log[i].op = "int" /\ tx_log[i].number \in { -32768, 0 }

C25_CompletesExceptEdgeValues == (head # NULL) ~> (Drained \/ EdgeCalled)

\* the handler is still emitting '-' for the one request ever made
MinusForever ==
    /\ Len(tx_log) = 1
    /\ Len(UDR0) = MaxOut
    /\ \A i \in 1 .. MaxOut : UDR0[i] = "-"
    /\ head # NULL


\* the request at the head of the queue prints a number
HeadIsNumber ==
    /\ head # NULL
    /\ transmit_queue[head].transmit_function \in { "integer", "hexadecimal" }

\* the byte written to UDR0 last is a digit
DigitEmittedLast ==
    /\ UDR0 # <<>>
    /\ \E d \in 1 .. Len(digit_map) : UDR0[Len(UDR0)] = digit_map[d]

\* digit_mask is not zero only in the middle of the digits of the head
MaskOnlyMidNumber == digit_mask # 0 => HeadIsNumber /\ DigitEmittedLast

\* C26: digit_mask is 0 whenever the handler starts the first digit of an
\* integer request and is not zero only while the head of the queue is an
\* integer request that has emitted at least one and not all of its digits:
\* the mask is 0 whenever another request becomes the head or the queue
\* empties, and it changes only in a handler step that emits a digit of an
\* integer request at the head.
C26_MaskZeroBetweenRequests ==
    [][/\ head' # head => digit_mask' = 0
       /\ digit_mask' # digit_mask =>
              /\ UdreStep
              /\ HeadIsNumber
              /\ Len(UDR0') = Len(UDR0) + 1
              /\ DigitEmittedLast'
       /\ MaskOnlyMidNumber']_vars

\* the second of two decimal requests is between its digits
C26_Witness ==
    /\ Len(tx_log) >= 2
    /\ tx_log[1].op = "int"
    /\ tx_log[2].op = "int"
    /\ UDR0 = <<"-", "4", "0", "-", "4">>
    /\ digit_mask = 1
    /\ HeadIsNumber


\* a step that is a call transmit_int (value, HEX)
HexCallStep ==
    /\ Len(tx_log') = Len(tx_log) + 1
    /\ tx_log'[Len(tx_log')].op = "int"
    /\ tx_log'[Len(tx_log')].base = HEX

\* C27: transmit_int (value, HEX) is all or nothing: the call queues both the
\* "0x" prefix and the digits, or it returns 0 and leaves the queue and the
\* free list as they were; with one free slot no "0x" is queued on its own.
C27_HexAllOrNothing ==
    [][HexCallStep =>
          \/ /\ tx_log'[Len(tx_log')].ret # 0
             /\ Len(QueueSlots') = Len(QueueSlots) + 2
          \/ /\ tx_log'[Len(tx_log')].ret = 0
             /\ UNCHANGED <<transmit_queue, head, tail, free_list>>]_vars

\* the rejected call has left its prefix at the tail of a full queue
LonePrefixQueued ==
    /\ tx_log # <<>>
    /\ tx_log[Len(tx_log)].op = "int"
    /\ tx_log[Len(tx_log)].base = HEX
    /\ tx_log[Len(tx_log)].ret = 0
    /\ free_list = NULL
    /\ tail # NULL
    /\ transmit_queue[tail].transmit_function = "string"
    /\ transmit_queue[tail].data.text = <<"0", "x">>
    /\ Len(tx_log) = BUFFER_LENGTH


\* a step that is an invocation of the TWI handler with a read at the head
ReadHandlerStep ==
    /\ twi_irqs' = twi_irqs + 1
    /\ queue_head # NULL
    /\ i2c_buffer[queue_head].i2c_mode = MASTER_RECEIVER_MODE

\* the bytes stored so far for the transaction at the head
StoredForHead ==
    Len(SelectSeq(rx_writes, LAMBDA w : w.id = HeadId(T)))

\* the handler's last write is TWCR = TWINT | TWEN | TWIE, with TWEA iff ack
AnswersWith(ack) ==
    /\ Len(twi_bus') = Len(twi_bus) + 1
    /\ twi_bus'[Len(twi_bus')] =
           [reg |-> "TWCR",
            val |-> TWINT + TWEN + TWIE + (IF ack THEN TWEA ELSE 0),
            txn |-> HeadId(T)]

\* the handler stores the byte in the data register at the next position
StoresNext ==
    rx_writes' = Append(rx_writes, [off |-> StoredForHead, val |-> TWDR',
                                    id |-> HeadId(T)])

\* C28: for a read of n >= 1 bytes the handler stores exactly n bytes, the
\* k-th to arrive at buffer [k - 1], answers each of the first n - 1 with ACK
\* and the last with NACK, writes nowhere else, and completes the transaction
\* on the byte received with NACK.
C28_ReadStoresExactly ==
    [][ReadHandlerStep =>
          LET n == i2c_log[HeadId(T)].length
              status == twsr_log'[Len(twsr_log')]
          IN CASE status = 64 ->
                      /\ StoredForHead = 0
                      /\ UNCHANGED <<rx_writes, i2c_done>>
                      /\ AnswersWith(1 < n)
               [] status = 80 ->
                      /\ StoredForHead + 1 < n
                      /\ StoresNext
                      /\ UNCHANGED i2c_done
                      /\ AnswersWith(StoredForHead + 2 < n)
               [] status = 88 ->
                      /\ StoredForHead + 1 = n
                      /\ StoresNext
                      /\ i2c_done' = Append(i2c_done, HeadId(T))
               [] OTHER -> UNCHANGED <<rx_writes, i2c_done>>]_vars

\* a read of three bytes has completed
C28_Witness ==
    /\ i2c_log # <<>>
    /\ i2c_log[1].op = "receive"
    /\ i2c_log[1].length = 3
    /\ i2c_done = <<1>>
    /\ twsr_log = <<8, 64, 80, 80, 88>>
    /\ rx_writes = << [off |-> 0, val |-> 90, id |-> 1],
                      [off |-> 1, val |-> 165, id |-> 1],
                      [off |-> 2, val |-> 90, id |-> 1] >>


\* an invocation of the TWI handler with a write at the head and the status
\* of an address byte (0x20) or a data byte (0x30) answered with NACK
NackedWriteStep ==
    /\ twi_irqs' = twi_irqs + 1
    /\ queue_head # NULL
    /\ i2c_buffer[queue_head].i2c_mode = MASTER_TRANSMITTER_MODE
    /\ twsr_log'[Len(twsr_log')] \in { 32, 48 }

\* what the handler of the build makes of the driver's state when it is
\* entered with this status
HandlerResult(status, stray) ==
    LET t == RaiseInterrupt(T, [status |-> status, data |-> TWDR]) IN
    IF driver = "i2c-digital-read"
    THEN TWI_vect(t, U, stray)
    ELSE [t |-> blink_TWI_vect(t, stray), u |-> U]

\* every byte of a write answered with NACK only was loaded, and it completed
NackedWriteSendsAll ==
    (/\ Len(i2c_log) = 1
     /\ i2c_log[1].op = "send"
     /\ twsr_log = <<8, 32>> \o [i \in 1 .. i2c_log[1].length |-> 48])
    => /\ i2c_done = <<1>>
       /\ queue_head = NULL
       /\ [i \in 1 .. Len(DataRegisterWrites) |-> DataRegisterWrites[i].val]
              = <<AddressByte(1)>> \o i2c_log[1].data

\* C29: in write mode the handler does with 0x20 what it does with 0x18 and
\* with 0x30 what it does with 0x28, in both builds of the driver: the state
\* it leaves differs from the acknowledged case in the status register alone;
\* a write answered with NACK throughout still loads every byte and
\* completes.
C29_NackHandledAsAck ==
    [][/\ NackedWriteStep =>
              \E stray \in StrayBytes :
                  LET status == twsr_log'[Len(twsr_log')]
                      acked == HandlerResult(status - 8, stray)
                  IN /\ T' = [acked.t EXCEPT !.TWSR = status]
                     /\ U' = acked.u
       /\ NackedWriteSendsAll']_vars

\* a write of two bytes, none acknowledged, has completed
C29_Witness ==
    /\ Len(i2c_log) = 1
    /\ i2c_log[1].data = <<0, 254>>
    /\ twsr_log = <<8, 32, 48, 48>>
    /\ i2c_done = <<1>>
    /\ queue_head = NULL


\* an invocation of the TWI handler with a transaction at the head and a
\* status no case of the handlers names, or 0x38
UnrecognisedStep ==
    /\ twi_irqs' = twi_irqs + 1
    /\ queue_head # NULL
    /\ twsr_log'[Len(twsr_log')] \in UnrecognisedStatuses

\* the handler has written no register and touched no queue and no pool
NothingDone ==
    /\ UNCHANGED <<i2c_buffer, queue_head, queue_tail, TWDR, twi_bus,
                   rx_writes, i2c_done>>
    /\ UNCHANGED <<transmit_queue, head, tail, free_list, UCSR0B>>

\* C30: an invocation of the TWI handler with an unrecognised status, 0x38
\* included, does nothing: the I2C queue and its slots, TWDR, and the UART's
\* queue and pool are as they were.
C30_UnrecognisedStatusNoOp == [][UnrecognisedStep => NothingDone]_vars

\* the same for a read at the head, and for the i2c-blink build
C30_NoOpOutsideWriteMode ==
    [][/\ UnrecognisedStep
       /\ \/ driver = "i2c-blink"
          \/ i2c_buffer[queue_head].i2c_mode = MASTER_RECEIVER_MODE
       => NothingDone]_vars

\* a read at the head has met an unrecognised status
UnrecognisedInReadMode ==
    /\ queue_head # NULL
    /\ i2c_buffer[queue_head].i2c_mode = MASTER_RECEIVER_MODE
    /\ twsr_log # <<>>
    /\ twsr_log[Len(twsr_log)] = 56


\* C31: between whole operations of the I2C driver a slot's i2c_mode is not
\* zero if and only if the slot is reachable from queue_head, so the slots
\* with a mode are as many as the queue is long, and never more than 32.
C31_ModeIffQueued ==
    /\ TwiSlotsInUse = Range(TwiQueueSlots)
    /\ Cardinality(TwiSlotsInUse) = Len(TwiQueueSlots)
    /\ Len(TwiQueueSlots) <= BUFFER_LENGTH

\* the pool was filled, a call was refused, and the handler has since
\* completed a transaction
C31_Witness ==
    /\ Len(i2c_log) > BUFFER_LENGTH
    /\ ~i2c_log[BUFFER_LENGTH + 1].accepted
    /\ i2c_done # <<>>
    /\ Cardinality(TwiSlotsInUse) = BUFFER_LENGTH - Len(i2c_done)


\* the data bytes loaded into TWDR for call id: its loads, the address apart
DataLoads(id) ==
    Len(SelectSeq(DataRegisterWrites, LAMBDA w : w.txn = id)) - 1

IsDone(id) == \E d \in 1 .. Len(i2c_done) : i2c_done[d] = id

\* what the claim says of the write of call id, asked to send `length` bytes
LoadsWithin(id) ==
    /\ DataLoads(id) <= i2c_log[id].length
    /\ IsDone(id) => DataLoads(id) = i2c_log[id].length
    /\ \A slot \in Slots :
           (i2c_buffer[slot].i2c_mode # 0 /\ i2c_buffer[slot].id = id)
           => /\ i2c_buffer[slot].data.off <= i2c_log[id].length
              /\ i2c_buffer[slot].data.off + i2c_buffer[slot].length
                     = i2c_log[id].length

\* C32: for every length passed to i2c_send_to, 0 and values above 255
\* included, the write loads exactly `length` data bytes into the data
\* register before it completes, its cursor never passes data + length, and
\* the remaining-length counter never wraps: the cursor and the counter
\* always add up to the length asked for.
C32_LoadsExactlyLength ==
    \A id \in 1 .. Len(i2c_log) : i2c_log[id].accepted => LoadsWithin(id)

\* the same for the lengths of 1 .. 255
C32_ExactForByteLengths ==
    \A id \in 1 .. Len(i2c_log) :
        (i2c_log[id].accepted /\ i2c_log[id].length \in 1 .. 255)
        => LoadsWithin(id)

\* a write of length 0 has loaded bytes from behind the caller's array and
\* its counter has wrapped to 255 and counts down from there
ZeroLengthWrapped ==
    /\ i2c_log # <<>>
    /\ i2c_log[1].length = 0
    /\ queue_head # NULL
    /\ i2c_buffer[queue_head].id = 1
    /\ i2c_buffer[queue_head].length = 254
    /\ i2c_buffer[queue_head].data.off = 2

\* a write of 257 bytes has completed after one byte
LongWriteCutShort ==
    /\ i2c_log # <<>>
    /\ i2c_log[1].length = 257
    /\ IsDone(1)
    /\ DataLoads(1) = 1


\* the transaction the caller of i2c_receive_from waits for has completed
WaitedReadCompleted ==
    /\ i2c_pc # "main"
    /\ wait_slot # NULL
    /\ i2c_buffer[wait_slot].i2c_mode = 0

\* C33: if the read transaction of an i2c_receive_from call completes, the
\* call eventually returns, also when the completing interrupt is taken
\* between the test of the slot's mode and the sleep instruction and no
\* interrupt follows.
C33_CompletedReadReturns == WaitedReadCompleted ~> (i2c_pc = "main")

\* the same when the completing interrupt finds the processor asleep or
\* about to test: only a completion that meets the caller between its test
\* and its sleep is excepted
C33_ReturnsUnlessRaced ==
    (WaitedReadCompleted /\ i2c_pc = "wait_test") ~> (i2c_pc = "main")

\* the transaction is complete, the bus is idle, and the caller sleeps
AsleepAfterCompletion ==
    /\ i2c_pc = "asleep"
    /\ wait_slot # NULL
    /\ i2c_buffer[wait_slot].i2c_mode = 0
    /\ twi_hw = "idle"
    /\ queue_head = NULL


\* uart_getchar has cleared the flag and has not returned
InGetchar == getline_pc \in { "test", "sei", "sleep", "asleep" }

\* a byte has been received since uart_getchar cleared the flag
ByteReceivedAfterClear == InGetchar /\ got_char = 1

\* C34: a byte received after uart_getchar cleared the ready flag leads to
\* the return of uart_getchar, wherever in the wait loop the receive
\* interrupt was taken and even if no further interrupt follows.
C34_ReceivedByteReturns == ByteReceivedAfterClear ~> ~InGetchar

\* C34: a byte received while the processor sleeps, or before the test of
\* the flag, does lead to the return.
C34_ReturnsUnlessRaced ==
    (ByteReceivedAfterClear /\ getline_pc \in { "test" }) ~> ~InGetchar

\* C34: the processor went to sleep with the flag already set: the receive
\* interrupt was taken between the test of the flag and sleep_cpu.
AsleepWithByteReady == getline_pc = "asleep" /\ got_char = 1


\* the bytes uart_getline has stored in the caller's buffer, in buffer order
StoredLine ==
    LET stores == SelectSeq(buffer_writes, LAMBDA w : ~w.terminator)
    IN  [i \in 1 .. Len(stores) |-> stores[i].value]

\* C35: the bytes stored in the caller's buffer are the bytes the receive
\* interrupt deposited during uart_getline, in arrival order, none lost and
\* none duplicated: the stored bytes are the arrivals up to the one
\* uart_getchar has yet to hand over, whatever the interleaving.
C35_StoredInArrivalOrder ==
    /\ Len(StoredLine) <= Len(rx_arrived)
    /\ StoredLine = SubSeq(rx_arrived, 1, Len(StoredLine))
    /\ Len(rx_arrived) <= Len(StoredLine) + 1

\* C35: no byte is stored that did not arrive, and none is stored twice:
\* there are never more stored bytes than arrivals.
C35_NoneDuplicated == Len(StoredLine) <= Len(rx_arrived)

\* C35: a byte was overwritten in received_data before uart_getchar
\* returned it: two bytes arrived and the line holds the second only.
FirstByteOverwritten ==
    /\ getline_pc = "done"
    /\ rx_arrived = << "a", "\r" >>
    /\ StoredLine = << "\r" >>

\* C35: a byte that arrived between the return of one uart_getchar and the
\* next one's clearing of the flag was discarded.
ByteDiscardedByClear ==
    /\ getline_pc = "done"
    /\ rx_arrived = << "a", "b", "\r" >>
    /\ StoredLine = << "a", "\r" >>


\* a fast line and write_line between the same end points are both drawn
BothDrawn == fast_line.function # "none" /\ line_pc = "done"

\* C36: vertical_line and horizontal_line colour exactly the pixels
\* write_line colours between the same end points: all |r2 - r1| + 1
\* (|c2 - c1| + 1) of them, both end points included, in either order of
\* the arguments.
C36_FastLineIsWriteLine ==
    BothDrawn =>
        /\ Range(fast_line.pixels) = Range(pixels)
        /\ Len(fast_line.pixels) = LinePixels
        /\ start \in Range(fast_line.pixels)
        /\ end \in Range(fast_line.pixels)

\* the end point with the greater row or column
FarEnd == IF end.row > start.row \/ end.column > start.column
          THEN end ELSE start

\* C36: the fast functions colour the pixels of write_line except the end
\* point with the greater coordinate.
C36_AllButFarEnd ==
    BothDrawn =>
        /\ Range(fast_line.pixels) = Range(pixels) \ { FarEnd }
        /\ Len(fast_line.pixels) = LinePixels - 1

\* C36: a line of one pixel colours nothing.
PointNotColoured ==
    /\ BothDrawn
    /\ start = end
    /\ pixels = << start >>
    /\ fast_line.pixels = <<>>

\* C36: vertical_line (2, 4, 1) leaves (4, 2) uncoloured.
FarEndNotColoured ==
    /\ BothDrawn
    /\ fast_line.function = "vertical_line"
    /\ start = [row |-> 4, column |-> 2]
    /\ end = [row |-> 1, column |-> 2]
    /\ Range(fast_line.pixels) = { [row |-> r, column |-> 2] : r \in 1 .. 3 }


\* the offsets from the centre of the pixels plotted so far
PlottedOffsets ==
    { [column |-> p.column - circle.center.column,
       row |-> p.row - circle.center.row] : p \in Range(circle.pixels) }

EightWaySymmetric ==
    \A o \in PlottedOffsets :
        /\ [o EXCEPT !.column = 0 - @] \in PlottedOffsets
        /\ [o EXCEPT !.row = 0 - @] \in PlottedOffsets
        /\ [column |-> o.row, row |-> o.column] \in PlottedOffsets

WithinRadius ==
    \A o \in PlottedOffsets :
        /\ o.column \in (0 - circle.r) .. circle.r
        /\ o.row \in (0 - circle.r) .. circle.r

\* C37: for every radius 0 .. MaxRadius and a centre at least that far from
\* every edge, draw_circle terminates, and the offsets it has plotted are
\* closed under negating the column offset, negating the row offset and
\* swapping the two, every component being at most the radius in magnitude.
C37_CircleEightWaySymmetric ==
    /\ [](circle.pc = "done" => EightWaySymmetric /\ WithinRadius)
    /\ (circle.pc = "loop") ~> (circle.pc = "done")

\* C37: a circle of radius 5 at the far corner is complete, (4, 3) and the
\* axis points among its offsets.
C37_Witness ==
    /\ circle.pc = "done"
    /\ circle.r = 5
    /\ circle.center.row = screen_rows - 1 - MaxRadius
    /\ [column |-> 4, row |-> 3] \in PlottedOffsets
    /\ [column |-> 0, row |-> -5] \in PlottedOffsets
    /\ Cardinality(PlottedOffsets) = 28


RingWellFormed ==
    /\ ring.head_pos \in 0 .. BUFFER_LENGTH - 1
    /\ ring.tail_pos \in 0 .. BUFFER_LENGTH - 1
    /\ ring.data_length \in 0 .. BUFFER_LENGTH
    /\ ring.tail_pos = (ring.head_pos + ring.data_length) % BUFFER_LENGTH

\* C38: in both ring buffer drivers head_pos and tail_pos stay in
\* [0, BUFFER_LENGTH), data_length stays in [0, BUFFER_LENGTH], and tail_pos
\* equals (head_pos + data_length) mod BUFFER_LENGTH.
C38_RingWellFormed == ring.build # "none" => RingWellFormed

\* C38: the invariant holds in the AnalogReadSerial build.
C38_AnalogRingWellFormed == ring.build = "AnalogReadSerial" => RingWellFormed

\* C38: the 32nd transmit_string of DigitalReadSerial has left tail_pos at
\* BUFFER_LENGTH, with a queue that is not full.
DigitalTailPastEnd ==
    /\ ring.build = "DigitalReadSerial"
    /\ ring.calls = BUFFER_LENGTH
    /\ ring.tail_pos = BUFFER_LENGTH
    /\ ring.data_length < BUFFER_LENGTH

\* C38: the next transmit_string has stored its message behind the array,
\* on data_length.
DigitalLengthOverwritten ==
    /\ ring.build = "DigitalReadSerial"
    /\ ring.data_length > MessageAddress

\* C38: AnalogReadSerial has wrapped: 34 messages accepted, the tail behind
\* the head.
AnalogWrapped ==
    /\ ring.build = "AnalogReadSerial"
    /\ ring.calls = BUFFER_LENGTH + 2
    /\ ring.tail_pos = 2
    /\ ring.head_pos = 3
    /\ ring.data_length = BUFFER_LENGTH - 1

=============================================================================
